---- MODULE Spec2Model ----
(***************************************************************************)
(* Mutar 0.1.7: the toolkit (static methods) and the wrapper object.       *)
(*                                                                         *)
(* Buffers live in a heap (a sequence of byte sequences, a buffer's id is  *)
(* its index); a typed array is a window [type, buf, off, len] on one of   *)
(* them, so that sharing a buffer and allocating a new one differ.         *)
(* Element types: the integer types, of 1 to 8 bytes; the two float types  *)
(* are left out.  Numbers are integers; a JavaScript argument that may be  *)
(* a non-integer or a boolean is a record (see Num, NonInt, Bool).         *)
(***************************************************************************)
EXTENDS Integers, Sequences, FiniteSets, TLC

VARIABLES
    host,          \* SYS_LITTLE_ENDIAN, detected once at load
    heap,          \* the ArrayBuffers: heap[id] is a sequence of bytes
    array,         \* wrapper: this.array
    view,          \* wrapper: this.view, the id of the buffer the DataView is on
    littleEndian,  \* wrapper: this.littleEndian
    others,        \* typed arrays at hand as operands of concat
    copy,          \* the other wrapper once clone() was called: its array,
                   \* view and littleEndian
    last           \* the last call: its arguments, what it returned or raised

vars == <<host, heap, array, view, littleEndian, others, copy, last>>

-----------------------------------------------------------------------------
(* Bounds of the model *)

MaxLen == 2        \* elements of a constructed array
MaxArgs == 2       \* arguments after deleteCount in a splice/push call
MaxIndex == 2      \* |start| and |deleteCount| of a splice call
MaxOthers == 2     \* operands of a concat call besides the base
MaxCalls == 2      \* wrapper methods called in a row
MaxOperandLen == 1 \* elements of an operand of a concat call

-----------------------------------------------------------------------------
(* Utils: the registry *)

\* the integer types of Utils.ArrayTypes
ArrayTypes ==
    {"Int8Array", "Uint8Array", "Uint8ClampedArray",
     "Int16Array", "Uint16Array", "Int32Array", "Uint32Array",
     "BigInt64Array", "BigUint64Array"}

\* the types whose elements are BigInts
BigIntTypes == {"BigInt64Array", "BigUint64Array"}

\* the types whose elements are Numbers
NumberTypes == ArrayTypes \ BigIntTypes

BYTES_PER_ELEMENT(type) ==
    CASE type \in {"Int8Array", "Uint8Array", "Uint8ClampedArray"} -> 1
      [] type \in {"Int16Array", "Uint16Array"} -> 2
      [] type \in {"Int32Array", "Uint32Array"} -> 4
      [] type \in {"BigInt64Array", "BigUint64Array"} -> 8

ViewMethods(type) ==
    CASE type = "Int8Array" -> [get |-> "getInt8", set |-> "setInt8"]
      [] type = "Uint8Array" -> [get |-> "getUint8", set |-> "setUint8"]
      [] type = "Uint8ClampedArray" -> [get |-> "getUint8", set |-> "setUint8"]
      [] type = "Int16Array" -> [get |-> "getInt16", set |-> "setInt16"]
      [] type = "Uint16Array" -> [get |-> "getUint16", set |-> "setUint16"]
      [] type = "Int32Array" -> [get |-> "getInt32", set |-> "setInt32"]
      [] type = "Uint32Array" -> [get |-> "getUint32", set |-> "setUint32"]
      [] type = "BigInt64Array" -> [get |-> "getBigInt64", set |-> "setBigInt64"]
      [] type = "BigUint64Array" -> [get |-> "getBigUint64", set |-> "setBigUint64"]

\* width in bytes of a DataView accessor
MethodBytes(method) ==
    CASE method \in {"getInt8", "setInt8", "getUint8", "setUint8"} -> 1
      [] method \in {"getInt16", "setInt16", "getUint16", "setUint16"} -> 2
      [] method \in {"getInt32", "setInt32", "getUint32", "setUint32"} -> 4
      [] method \in {"getBigInt64", "setBigInt64", "getBigUint64", "setBigUint64"} -> 8

MethodSigned(method) ==
    method \in {"getInt8", "setInt8", "getInt16", "setInt16", "getInt32", "setInt32",
                "getBigInt64", "setBigInt64"}

-----------------------------------------------------------------------------
(* Bytes and numbers.  A number (a Number holding an integer, or a BigInt)  *)
(* is kept as the nine bytes of its two's complement, least significant     *)
(* first: enough for the values of every integer type, the 64-bit ones      *)
(* included, whose range is beyond the model checker's integers.            *)

Pow256(k) == CASE k = 0 -> 1 [] k = 1 -> 256 [] k = 2 -> 65536 [] k = 3 -> 16777216

Reverse(s) == [i \in 1..Len(s) |-> s[Len(s) + 1 - i]]

Zeros(n) == [i \in 1..n |-> 0]

RECURSIVE Flatten(_)
Flatten(ss) == IF ss = <<>> THEN <<>> ELSE Head(ss) \o Flatten(Tail(ss))

\* the number n, an integer of less than 32 bits
ValueOf(n) ==
    [k \in 1..9 |-> IF k <= 4 THEN (n \div Pow256(k - 1)) % 256
                    ELSE IF n < 0 THEN 255 ELSE 0]

IsZero(v) == v = Zeros(9)
IsNegative(v) == v[9] >= 128

\* the w low-order bytes of v, least significant first
LowBytes(v, w) == SubSeq(v, 1, w)

\* the number the bytes bs stand for, least significant first
FromBytes(bs, signed) ==
    [k \in 1..9 |-> IF k <= Len(bs) THEN bs[k]
                    ELSE IF signed /\ bs[Len(bs)] >= 128 THEN 255 ELSE 0]

\* the bits of v, least significant first, and back
Bits(v) == [i \in 1..72 |-> (v[(i - 1) \div 8 + 1] \div 2^((i - 1) % 8)) % 2]

FromBits(b) ==
    [k \in 1..9 |-> b[8 * k - 7] + 2 * b[8 * k - 6] + 4 * b[8 * k - 5] + 8 * b[8 * k - 4]
                    + 16 * b[8 * k - 3] + 32 * b[8 * k - 2] + 64 * b[8 * k - 1]
                    + 128 * b[8 * k]]

\* b + 2^(i - 1), a carry beyond the last bit being dropped
RECURSIVE AddBit(_, _)
AddBit(b, i) ==
    IF i > Len(b) THEN b
    ELSE IF b[i] = 0 THEN [b EXCEPT ![i] = 1]
    ELSE AddBit([b EXCEPT ![i] = 0], i + 1)

\* -b
Negated(b) == AddBit([i \in 1..Len(b) |-> 1 - b[i]], 1)

\* the place of the highest bit set in b, 0 if none
TopBit(b) ==
    IF \A i \in 1..Len(b) : b[i] = 0 THEN 0
    ELSE CHOOSE i \in 1..Len(b) : b[i] = 1 /\ \A j \in (i + 1)..Len(b) : b[j] = 0

\* b >= 0 less its drop low-order bits, rounded to the nearest, ties to even
RoundedAt(b, drop) ==
    IF drop <= 0 THEN b
    ELSE IF b[drop] = 1 /\ (b[drop + 1] = 1 \/ \E i \in 1..(drop - 1) : b[i] = 1)
    THEN AddBit([i \in 1..Len(b) |-> IF i <= drop THEN 0 ELSE b[i]], drop + 1)
    ELSE [i \in 1..Len(b) |-> IF i <= drop THEN 0 ELSE b[i]]

\* b >= 0 rounded to the 53 significant bits of a double
Rounded(b) == RoundedAt(b, TopBit(b) - 53)

\* -2^53 <= v < 2^53: a double holds v as it is
Safe(v) ==
    \/ v[9] = 0 /\ v[8] = 0 /\ v[7] < 32
    \/ v[9] = 255 /\ v[8] = 255 /\ v[7] >= 224

\* Number(n): the double nearest to the integer n
Number(v) ==
    IF Safe(v) THEN v
    ELSE IF IsNegative(v) THEN FromBits(Negated(Rounded(Negated(Bits(v)))))
    ELSE FromBits(Rounded(Bits(v)))

\* DataView.prototype.getXxx(byteOffset, littleEndian) on the buffer bytes bs
DataViewInRange(bs, method, byteOffset) ==
    byteOffset >= 0 /\ byteOffset + MethodBytes(method) <= Len(bs)

\* the bytes of an element as stored in the order le, least significant first
Ordered(raw, le) == IF le THEN raw ELSE Reverse(raw)

DataViewGet(bs, method, byteOffset, le) ==
    FromBytes(Ordered(SubSeq(bs, byteOffset + 1, byteOffset + MethodBytes(method)), le),
              MethodSigned(method))

\* bs with enc written at byteOffset
Written(bs, byteOffset, enc) ==
    [i \in 1..Len(bs) |->
        IF i > byteOffset /\ i <= byteOffset + Len(enc) THEN enc[i - byteOffset] ELSE bs[i]]

\* the setter ignoring the byte order asked for
DataViewSetLittle(bs, method, byteOffset, value, le) ==
    Written(bs, byteOffset, LowBytes(value, MethodBytes(method)))

\* DataView.prototype.setXxx(byteOffset, value, littleEndian): the value
\* wraps modulo 2^(8w)
DataViewSet(bs, method, byteOffset, value, le) ==
    Written(bs, byteOffset, Ordered(LowBytes(value, MethodBytes(method)), le))

-----------------------------------------------------------------------------
(* JavaScript argument values *)

Num(n) == [t |-> "int", n |-> n, b |-> FALSE]
\* any value Number.isInteger rejects and that is no boolean (undefined, NaN, 1.5)
NonInt == [t |-> "nonint", n |-> 0, b |-> FALSE]
Null == [t |-> "null", n |-> 0, b |-> FALSE]
Bool(b) == [t |-> "boolean", n |-> IF b THEN 1 ELSE 0, b |-> b]

IsInteger(x) == x.t = "int"
IsBoolean(x) == x.t = "boolean"
\* ToNumber, as the DataView setters apply it to an item
ToNumber(x) == ValueOf(x.n)

Min(a, b) == IF a < b THEN a ELSE b
Max(a, b) == IF a > b THEN a ELSE b

-----------------------------------------------------------------------------
(* Typed arrays: the native operations the toolkit relies on *)

NoArray == [type |-> "none", buf |-> 0, off |-> 0, len |-> 0]

TypedArray(type, buf, off, len) == [type |-> type, buf |-> buf, off |-> off, len |-> len]

byteLength(obj) == obj.len * BYTES_PER_ELEMENT(obj.type)

\* the bytes in obj's window of its buffer
Bytes(h, obj) == SubSeq(h[obj.buf], obj.off + 1, obj.off + byteLength(obj))

\* obj[i], read in the host's byte order (i counts from 0)
Elem(h, obj, i) ==
    DataViewGet(h[obj.buf], ViewMethods(obj.type).get,
                obj.off + i * BYTES_PER_ELEMENT(obj.type), host)

\* [...obj]
Spread(h, obj) == [i \in 1..obj.len |-> Elem(h, obj, i - 1)]

\* the byte a store into a Uint8ClampedArray writes
Clamped(value) ==
    IF IsNegative(value) THEN 0
    ELSE IF \E k \in 2..9 : value[k] # 0 THEN 255
    ELSE value[1]

\* the bytes a native store of value into an element of the type writes
\* (Uint8ClampedArray clamps, the others wrap)
NativeBytes(type, value) ==
    IF type = "Uint8ClampedArray" THEN <<Clamped(value)>>
    ELSE Ordered(LowBytes(value, BYTES_PER_ELEMENT(type)), host)

\* new ArrayBuffer holding bs: the heap grows by one buffer
Alloc(h, bs) == Append(h, bs)
NewId(h) == Len(h) + 1

\* TypedArray.from(values) / new TypedArray(values)
TypedArrayFrom(h, type, values) ==
    [h |-> Alloc(h, Flatten([i \in 1..Len(values) |-> NativeBytes(type, values[i])])),
     array |-> TypedArray(type, NewId(h), 0, Len(values))]

\* relative index of slice/subarray
RelIndex(k, len) == IF k < 0 THEN Max(len + k, 0) ELSE Min(k, len)

\* obj.subarray(begin, end): a window on the same buffer
subarray(obj, begin, end) ==
    LET from == RelIndex(begin, obj.len)
        to == RelIndex(end, obj.len)
    IN  TypedArray(obj.type, obj.buf,
                   obj.off + from * BYTES_PER_ELEMENT(obj.type), Max(to - from, 0))

\* a copy of the window sub in a buffer of its own
SliceOf(h, sub) ==
    [h |-> Alloc(h, Bytes(h, sub)), array |-> TypedArray(sub.type, NewId(h), 0, sub.len)]

\* obj.slice(begin, end)
slice(h, obj, begin, end) == SliceOf(h, subarray(obj, begin, end))

\* obj.filter((b) => b !== 0): a BigInt never equals the Number 0
RECURSIVE NonZero(_, _)
NonZero(values, type) ==
    IF values = <<>> THEN <<>>
    ELSE IF type \in BigIntTypes \/ ~IsZero(Head(values))
    THEN <<Head(values)>> \o NonZero(Tail(values), type)
    ELSE NonZero(Tail(values), type)

-----------------------------------------------------------------------------
(* The toolkit.  A call returns a record: h, the heap after it; err, "none" *)
(* or the name of the error it raised; and what it returned.                *)

Raise(h, err) == [h |-> h, err |-> err, array |-> NoArray]
Return(h, obj) == [h |-> h, err |-> "none", array |-> obj]

\* return of a typed array just created (r holds the heap and the array)
ReturnNew(r) == [h |-> r.h, err |-> "none", array |-> r.array]

\* the indices of obj holding a non-zero value
Truthy(h, obj) == {i \in 0..(obj.len - 1) : ~IsZero(Elem(h, obj, i))}

\* trim, big endian: the first index from the left holding a non-zero value
TrimStart(truthy, len, le) ==
    IF ~le
    THEN (IF truthy = {} THEN len ELSE CHOOSE i \in truthy : \A j \in truthy : i <= j)
    ELSE 0

\* mutant: nothing is taken off the end
TrimEndKept(truthy, len, le) == len - 1

\* mutant: a read in big-endian order returns nothing
ViewGetLittle(h, bs, get, offset, le) ==
    [h |-> h, err |-> "none", defined |-> le,
     value |-> IF le THEN DataViewGet(bs, get, offset, le) ELSE ValueOf(0)]

\* trim, little endian: the first index from the right holding a non-zero value
TrimEnd(truthy, len, le) ==
    IF le
    THEN (IF truthy = {} THEN -1 ELSE CHOOSE i \in truthy : \A j \in truthy : i >= j)
    ELSE len - 1

\* the slice trim returns
TrimSlice(h, obj, truthy, le) ==
    slice(h, obj, TrimStart(truthy, obj.len, le), TrimEnd(truthy, obj.len, le) + 1)

\* static trim(obj, purge, littleEndian)
trim(h, obj, purge, le) ==
    IF purge
    THEN ReturnNew(TypedArrayFrom(h, obj.type, NonZero(Spread(h, obj), obj.type)))
    ELSE ReturnNew(TrimSlice(h, obj, Truthy(h, obj), le))

\* function num(n, bigInt) of convert
num(n, bigInt) == IF bigInt THEN n ELSE Number(n)

\* the integrity test of the intMode branch: val is the value read with the
\* source's getter, bs the bytes of the DataView
IntegrityTest(bs, type, intMode, le, curBytesPerElem, curOffset, val) ==
    IF /\ intMode # "force"
       /\ Max(curBytesPerElem - BYTES_PER_ELEMENT(type), 0) # 0
       /\ val # num(DataViewGet(bs, ViewMethods(type).get, curOffset, le),
                     BYTES_PER_ELEMENT(type) > 7)
    THEN [err |-> "IntegrityError", val |-> val]
    ELSE [err |-> "none", val |-> val]

\* the intMode branch of convert: the element of the source at curOffset, read
\* through the bytes bs of the DataView
IntModeStep(bs, curType, type, intMode, le, curOffset) ==
    IF ~DataViewInRange(bs, ViewMethods(curType).get, curOffset)
    THEN [err |-> "RangeError", val |-> ValueOf(0)]
    ELSE IntegrityTest(bs, type, intMode, le, BYTES_PER_ELEMENT(curType), curOffset,
                       num(DataViewGet(bs, ViewMethods(curType).get, curOffset, le),
                           BYTES_PER_ELEMENT(type) > 7))

\* mutant: the value is written in little-endian order whatever le
IntModeBytesLittle(val, newBytesPerElem, le) == LowBytes(val, newBytesPerElem)

\* the value written into the new array, in the order le
IntModeBytes(val, newBytesPerElem, le) ==
    IF le THEN LowBytes(val, newBytesPerElem) ELSE Reverse(LowBytes(val, newBytesPerElem))

\* the steps that raise
Failing(steps) == {i \in 1..Len(steps) : steps[i].err # "none"}

\* the loop of the intMode branch over the elements read (steps): it stops at
\* the first element that raises
IntModeLoop(h, type, le, steps) ==
    IF Failing(steps) # {}
    THEN Raise(h, steps[CHOOSE i \in Failing(steps) : \A j \in Failing(steps) : i <= j].err)
    ELSE Return(Alloc(h, Flatten([i \in 1..Len(steps) |->
                             IntModeBytes(steps[i].val, BYTES_PER_ELEMENT(type), le)])),
                TypedArray(type, NewId(h), 0, Len(steps)))

\* the elements of obj as the intMode branch reads them
IntModeSteps(bs, obj, type, intMode, le) ==
    [i \in 1..obj.len |->
        IntModeStep(bs, obj.type, type, intMode, le, (i - 1) * BYTES_PER_ELEMENT(obj.type))]

\* mutant: the shared view is returned untrimmed
ConvertSharedUntrimmed(h, obj, type, trimArg, le, width) ==
    IF Len(h[obj.buf]) % width # 0 THEN Raise(h, "RangeError")
    ELSE Return(h, TypedArray(type, obj.buf, 0, Len(h[obj.buf]) \div width))

\* the raw branch of convert when the byte length is a multiple of the new
\* width: new TypedArray(obj.buffer), the whole buffer, shared
ConvertShared(h, obj, type, trimArg, le, width) ==
    IF Len(h[obj.buf]) % width # 0 THEN Raise(h, "RangeError")
    ELSE IF trimArg # "false"
    THEN trim(h, TypedArray(type, obj.buf, 0, Len(h[obj.buf]) \div width),
              trimArg = "purge", le)
    ELSE Return(h, TypedArray(type, obj.buf, 0, Len(h[obj.buf]) \div width))

\* mutant: the original bytes are set at offset 0 whatever the order
ConvertPaddedAtEnd(h, type, orig, offset, newLen, width) ==
    IF Len(orig) > newLen THEN Raise(h, "RangeError")
    ELSE Return(Alloc(h, orig \o Zeros(newLen - Len(orig))),
                TypedArray(type, NewId(h), 0, newLen \div width))

\* the raw branch of convert otherwise: orig, a Uint8Array on the whole buffer
\* (or obj itself), is set at offset into a zeroed array of newLen bytes
ConvertPadded(h, type, orig, offset, newLen, width) ==
    IF offset + Len(orig) > newLen THEN Raise(h, "RangeError")
    ELSE Return(Alloc(h, Zeros(offset) \o orig \o Zeros(newLen - offset - Len(orig))),
                TypedArray(type, NewId(h), 0, newLen \div width))

\* the raw branch of convert, byteDiff being obj.byteLength % width
ConvertRaw(h, obj, type, trimArg, le, width, byteDiff) ==
    IF byteDiff = 0
    THEN ConvertShared(h, obj, type, trimArg, le, width)
    ELSE ConvertPadded(h, type,
                       IF BYTES_PER_ELEMENT(obj.type) > 1 THEN h[obj.buf] ELSE Bytes(h, obj),
                       IF le THEN 0 ELSE width - byteDiff,
                       byteLength(obj) + width - byteDiff, width)

\* static convert(obj, type, intMode, trim, littleEndian, view);
\* intMode is "false", "true" or "force", trimArg "false", "true" or "purge",
\* dv the buffer id of the DataView handed in, 0 for none
convert(h, obj, type, intMode, trimArg, le, dv) ==
    IF intMode # "false"
    THEN IntModeLoop(h, type, le,
                     IntModeSteps(h[IF dv # 0 THEN dv ELSE obj.buf], obj, type, intMode, le))
    ELSE ConvertRaw(h, obj, type, trimArg, le, BYTES_PER_ELEMENT(type),
                    byteLength(obj) % BYTES_PER_ELEMENT(type))

\* mutant: an operand of another type is taken as it is
ConcatOperandLax(h, nextObj, type, force, intMode, trimArg) ==
    IF nextObj.type = type THEN Return(h, nextObj)
    ELSE IF force THEN convert(h, nextObj, type, intMode, trimArg, host, 0)
    ELSE Return(h, nextObj)

\* one operand of concat: itself when of the base's type, converted when
\* force is set, a TypeError otherwise
ConcatOperand(h, nextObj, type, force, intMode, trimArg) ==
    IF nextObj.type = type THEN Return(h, nextObj)
    ELSE IF force THEN convert(h, nextObj, type, intMode, trimArg, host, 0)
    ELSE Raise(h, "TypeError")

\* the forEach of concat from operand k on: collects the operands' elements
\* in precursor
RECURSIVE ConcatWalk(_, _, _, _, _, _, _, _)
RECURSIVE ConcatPush(_, _, _, _, _, _, _, _)
ConcatPush(c, type, args, k, precursor, force, intMode, trimArg) ==
    IF c.err # "none" THEN [h |-> c.h, err |-> c.err, precursor |-> precursor]
    ELSE ConcatWalk(c.h, type, args, k + 1, precursor \o Spread(c.h, c.array),
                    force, intMode, trimArg)

ConcatWalk(h, type, args, k, precursor, force, intMode, trimArg) ==
    IF k > Len(args) THEN [h |-> h, err |-> "none", precursor |-> precursor]
    ELSE ConcatPush(ConcatOperand(h, args[k], type, force, intMode, trimArg),
                    type, args, k, precursor, force, intMode, trimArg)

\* the end of concat: type.from(precursor)
ConcatFrom(w, type) ==
    IF w.err # "none" THEN Raise(w.h, w.err)
    ELSE ReturnNew(TypedArrayFrom(w.h, type, w.precursor))

\* the modifiers of concat
ConcatTrim(mods) ==
    IF "purge" \in mods THEN "purge" ELSE IF "trim" \in mods THEN "true" ELSE "false"

ConcatIntMode(mods) ==
    IF "intForce" \in mods THEN "force" ELSE IF "intMode" \in mods THEN "true" ELSE "false"

\* mutant: the base is copied even when no operand is passed
concatCopy(h, obj, args, mods) ==
    ConcatFrom(ConcatWalk(h, obj.type, args, 1, Spread(h, obj),
                          "force" \in mods \/ ConcatIntMode(mods) # "false",
                          ConcatIntMode(mods), ConcatTrim(mods)),
               obj.type)

\* static concat(obj, ...args): args are the typed arrays, mods the set of
\* strings "force", "trim", "purge", "intMode", "intForce" passed among them
concat(h, obj, args, mods) ==
    IF Len(args) = 0 THEN Return(h, obj)
    ELSE ConcatFrom(ConcatWalk(h, obj.type, args, 1, Spread(h, obj),
                               "force" \in mods \/ ConcatIntMode(mods) # "false",
                               ConcatIntMode(mods), ConcatTrim(mods)),
                    obj.type)

\* the normalised start of splice
SpliceStart(len, start) ==
    Min(IF ~IsInteger(start) THEN len
        ELSE IF start.n < 0 THEN Max(len + start.n, 0)
        ELSE start.n,
        len)

\* mutant: a negative deleteCount is not raised to 0
SpliceDeleteCountUnclamped(len, start, deleteCount) ==
    IF start = len THEN 0
    ELSE IF ~IsInteger(deleteCount) \/ deleteCount.n >= len - start THEN len - start
    ELSE deleteCount.n

\* the normalised deleteCount of splice, start being normalised already
SpliceDeleteCount(len, start, deleteCount) ==
    IF start = len THEN 0
    ELSE IF ~IsInteger(deleteCount) \/ deleteCount.n >= len - start THEN len - start
    ELSE Max(deleteCount.n, 0)

\* typeof(items.at(-1)) === "boolean"
LastIsBoolean(items) == Len(items) > 0 /\ IsBoolean(items[Len(items)])

\* the byte order of a splice: the trailing boolean, else the host's
SpliceOrder(items) == IF LastIsBoolean(items) THEN items[Len(items)].b ELSE host

\* the items left once the trailing boolean is taken off
SpliceItems(items) ==
    IF LastIsBoolean(items) THEN SubSeq(items, 1, Len(items) - 1) ELSE items

\* the loop writing the items from the i-th on through the DataView on ins
RECURSIVE SpliceSet(_, _, _, _, _, _)
SpliceSet(bs, set, bytesPerElem, its, i, le) ==
    IF i > Len(its) THEN bs
    ELSE SpliceSet(DataViewSet(bs, set, (i - 1) * bytesPerElem, ToNumber(its[i]), le),
                   set, bytesPerElem, its, i + 1, le)

\* the bytes of ins, a zeroed array of items.length, after the loop
SpliceIns(type, its, le) ==
    SpliceSet(Zeros(Len(its) * BYTES_PER_ELEMENT(type)), ViewMethods(type).set,
              BYTES_PER_ELEMENT(type), its, 1, le)

\* the concatenation ending splice: spliced holds the heap after the slice
\* and the removed segment, end is start + deleteCount
SpliceConcat(spliced, obj, start, end, its, le) ==
    IF Len(its) > 0
    THEN concat(Alloc(spliced.h, SpliceIns(obj.type, its, le)),
                subarray(obj, 0, start),
                <<TypedArray(obj.type, NewId(spliced.h), 0, Len(its)),
                  subarray(obj, end, obj.len)>>, {})
    ELSE concat(spliced.h, subarray(obj, 0, start), <<subarray(obj, end, obj.len)>>, {})

\* return [newArray, spliced]
SpliceReturn(c, spliced) ==
    [h |-> c.h, err |-> c.err, array |-> c.array, spliced |-> spliced.array]

\* splice once start and end are normalised
SpliceParts(h, obj, start, end, its, le, spliced) ==
    SpliceReturn(SpliceConcat(spliced, obj, start, end, its, le), spliced)

\* splice once start is normalised
SpliceFrom(h, obj, start, end, items) ==
    SpliceParts(h, obj, start, end, SpliceItems(items), SpliceOrder(items),
                slice(h, obj, start, end))

\* static splice(obj, start, deleteCount, ...items): returns [newArray, spliced]
splice(h, obj, start, deleteCount, items) ==
    SpliceFrom(h, obj, SpliceStart(obj.len, start),
               SpliceStart(obj.len, start)
                 + SpliceDeleteCount(obj.len, SpliceStart(obj.len, start), deleteCount),
               items)

\* return [newArray, newArray.length]
PushReturn(r) == [h |-> r.h, err |-> r.err, array |-> r.array, length |-> r.array.len]

\* static push(obj, ...args)
push(h, obj, args) == PushReturn(splice(h, obj, Num(obj.len), Num(0), args))

\* return [obj.slice(0, -1), popped]
PopReturn(r, popped) == [h |-> r.h, err |-> "none", array |-> r.array, popped |-> popped]

\* pop through the bytes bs of the DataView, lastIntIndex being the offset of
\* the last element
PopAt(h, obj, le, bs, lastIntIndex) ==
    IF ~DataViewInRange(bs, ViewMethods(obj.type).get, lastIntIndex)
    THEN [h |-> h, err |-> "RangeError", array |-> NoArray, popped |-> ValueOf(0)]
    ELSE PopReturn(slice(h, obj, 0, -1),
                   DataViewGet(bs, ViewMethods(obj.type).get, lastIntIndex, le))

\* mutant: the popped value is read in the host's order
popHostOrder(h, obj, le, dv) ==
    PopAt(h, obj, host, h[IF dv # 0 THEN dv ELSE obj.buf],
          (obj.len - 1) * BYTES_PER_ELEMENT(obj.type))

\* static pop(obj, littleEndian, view)
pop(h, obj, le, dv) ==
    PopAt(h, obj, le, h[IF dv # 0 THEN dv ELSE obj.buf],
          (obj.len - 1) * BYTES_PER_ELEMENT(obj.type))

-----------------------------------------------------------------------------
(* The toolkit: types, single elements, and the methods built on splice *)

\* Utils.ArrayTypes also holds the two float types, which have no bytes here
FloatTypes == {"Float32Array", "Float64Array"}

\* the keys of Utils.ArrayTypes
TypeNames == ArrayTypes \cup FloatTypes

\* the keys of Utils.ArrayShortCuts
ShortCutNames ==
    {"Int8", "Uint8", "Clamped", "Int16", "Uint16", "Int32", "Uint32",
     "Float32", "Float64", "BigInt", "BigUint"}

ArrayShortCuts(key) ==
    CASE key = "Int8" -> "Int8Array"
      [] key = "Uint8" -> "Uint8Array"
      [] key = "Clamped" -> "Uint8ClampedArray"
      [] key = "Int16" -> "Int16Array"
      [] key = "Uint16" -> "Uint16Array"
      [] key = "Int32" -> "Int32Array"
      [] key = "Uint32" -> "Uint32Array"
      [] key = "Float32" -> "Float32Array"
      [] key = "Float64" -> "Float64Array"
      [] key = "BigInt" -> "BigInt64Array"
      [] key = "BigUint" -> "BigUint64Array"

\* the property names every object literal inherits from Object.prototype
ObjectPrototype ==
    {"constructor", "hasOwnProperty", "isPrototypeOf", "propertyIsEnumerable",
     "toLocaleString", "toString", "valueOf", "__proto__"}

\* key in object, for an object literal with the keys given: the prototype
\* chain is looked through as well
In(key, keys) == key \in keys \/ key \in ObjectPrototype

\* an input of typeFromInput: a string, or a function of that name
StringInput(s) == [typeof |-> "string", name |-> s]
FunctionInput(name) == [typeof |-> "function", name |-> name]
NoInput == [typeof |-> "undefined", name |-> ""]

\* static typeFromInput(type): the name returned, or the error raised
typeFromInput(type) ==
    IF In(type.name, TypeNames) THEN [err |-> "none", type |-> type.name]
    ELSE IF In(type.name, ShortCutNames)
    THEN [err |-> "none", type |-> ArrayShortCuts(type.name)]
    ELSE [err |-> "TypeError", type |-> "none"]

\* what at returns: a value, or undefined
Undefined(h) == [h |-> h, err |-> "none", defined |-> FALSE, value |-> ValueOf(0)]
Defined(h, value) == [h |-> h, err |-> "none", defined |-> TRUE, value |-> value]

\* view[get](offset, littleEndian) through the bytes bs of the DataView
ViewGet(h, bs, get, offset, le) ==
    IF ~DataViewInRange(bs, get, offset)
    THEN [h |-> h, err |-> "RangeError", defined |-> FALSE, value |-> ValueOf(0)]
    ELSE Defined(h, DataViewGet(bs, get, offset, le))

\* mutant: a negative index is not counted from the end
atFromStart(h, obj, index, le, dv) ==
    IF index < 0 \/ index >= obj.len THEN Undefined(h)
    ELSE ViewGet(h, h[IF dv # 0 THEN dv ELSE obj.buf], ViewMethods(obj.type).get,
                 index * BYTES_PER_ELEMENT(obj.type), le)

\* static at(obj, index, littleEndian, view), index an integer
at(h, obj, index, le, dv) ==
    IF index < 0 /\ obj.len + index < 0 THEN Undefined(h)
    ELSE IF index >= obj.len THEN Undefined(h)
    ELSE ViewGet(h, h[IF dv # 0 THEN dv ELSE obj.buf], ViewMethods(obj.type).get,
                 (IF index < 0 THEN obj.len + index ELSE index) * BYTES_PER_ELEMENT(obj.type),
                 le)

\* the index setAt writes at
SetAtIndex(len, index) ==
    IF index < 0 THEN Max(len + index, 0)
    ELSE IF index >= len THEN len - 1
    ELSE index

\* view[set](offset, integer, littleEndian) on buffer b
ViewSet(h, b, set, offset, integer, le) ==
    IF ~DataViewInRange(h[b], set, offset) THEN [h |-> h, err |-> "RangeError"]
    ELSE [h |-> [h EXCEPT ![b] = DataViewSet(@, set, offset, ToNumber(integer), le)],
          err |-> "none"]

\* static setAt(obj, index, integer, littleEndian, view): writes in place
setAt(h, obj, index, integer, le, dv) ==
    ViewSet(h, IF dv # 0 THEN dv ELSE obj.buf, ViewMethods(obj.type).set,
            SetAtIndex(obj.len, index) * BYTES_PER_ELEMENT(obj.type), integer, le)

\* the bytes bs with every group of bytesPerElem bytes among the first
\* byteLen reversed
Flipped(bs, byteLen, bytesPerElem) ==
    [k \in 1..Len(bs) |->
        IF k <= byteLen
        THEN bs[((k - 1) \div bytesPerElem) * bytesPerElem
                + bytesPerElem - ((k - 1) % bytesPerElem)]
        ELSE bs[k]]

\* flipEndianness on the array it works on, the clone or obj itself
FlipIn(h, obj) ==
    IF BYTES_PER_ELEMENT(obj.type) > 1
    THEN Return([h EXCEPT ![obj.buf] =
                     Flipped(@, byteLength(obj), BYTES_PER_ELEMENT(obj.type))], obj)
    ELSE Return(h, obj)

FlipNew(r) == FlipIn(r.h, r.array)

\* mutant: the element's bytes are left as they are
flipEndiannessOff(h, obj, clone) ==
    IF clone THEN ReturnNew(slice(h, obj, 0, obj.len)) ELSE Return(h, obj)

\* static flipEndianness(obj, clone): in place unless clone is set
flipEndianness(h, obj, clone) ==
    IF clone THEN FlipNew(slice(h, obj, 0, obj.len)) ELSE FlipIn(h, obj)

\* the index insert hands to splice
InsertIndex(len, index) ==
    IF index < 0 THEN Max(len + index + 1, 0)
    ELSE IF index > len THEN len
    ELSE index

\* mutant: a negative index is counted as splice counts it
insertBefore(h, obj, index, integer, le) ==
    PushReturn(splice(h, obj, Num(index), Num(0), <<integer, Bool(le)>>))

\* static insert(obj, index, integer, littleEndian): returns
\* [newArray, newArray.length]
insert(h, obj, index, integer, le) ==
    PushReturn(splice(h, obj, Num(InsertIndex(obj.len, index)), Num(0),
                      <<integer, Bool(le)>>))

\* detachedArray.at(0) once the detached array is in the host's order
DetachAt(f, newArray) ==
    [h |-> f.h, err |-> "none", array |-> newArray,
     defined |-> f.array.len > 0,
     value |-> IF f.array.len > 0 THEN Elem(f.h, f.array, 0) ELSE ValueOf(0)]

\* detach once splice has returned r
DetachFlip(r, le) ==
    IF r.err # "none"
    THEN [h |-> r.h, err |-> r.err, array |-> NoArray, defined |-> FALSE,
          value |-> ValueOf(0)]
    ELSE IF le # host THEN DetachAt(flipEndianness(r.h, r.spliced, FALSE), r.array)
    ELSE DetachAt(Return(r.h, r.spliced), r.array)

\* mutant: the detached array is never flipped
detachUnflipped(h, obj, index, le) ==
    DetachFlip(splice(h, obj, Num(Min(index, obj.len - 1)), Num(1), <<Bool(le)>>), host)

\* static detach(obj, index, littleEndian): returns [newArray, detached]
detach(h, obj, index, le) ==
    DetachFlip(splice(h, obj, Num(Min(index, obj.len - 1)), Num(1), <<Bool(le)>>), le)

\* return [obj.slice(1), shifted]
ShiftReturn(r, got) ==
    [h |-> r.h, err |-> "none", array |-> r.array, defined |-> TRUE, value |-> got.value]

ShiftGot(h, obj, got) ==
    IF got.err # "none"
    THEN [h |-> h, err |-> got.err, array |-> NoArray, defined |-> FALSE,
          value |-> ValueOf(0)]
    ELSE ShiftReturn(slice(h, obj, 1, obj.len), got)

\* static shift(obj, littleEndian, view)
shift(h, obj, le, dv) ==
    ShiftGot(h, obj, ViewGet(h, h[IF dv # 0 THEN dv ELSE obj.buf],
                             ViewMethods(obj.type).get, 0, le))

\* static unshift(obj, ...args)
unshift(h, obj, args) == PushReturn(splice(h, obj, Num(0), Num(0), args))

-----------------------------------------------------------------------------
(* The state: what is kept of a call, and the buffers that stay reachable *)

\* type, length and bytes of a typed array at the time of a call
Snapshot(h, obj) ==
    IF obj = NoArray THEN [type |-> "none", len |-> 0, bytes |-> <<>>]
    ELSE [type |-> obj.type, len |-> obj.len, bytes |-> Bytes(h, obj)]

NoPrev == [op |-> "none"]

\* no other wrapper: clone() was not called
NoWrapper == [array |-> NoArray, view |-> 0, littleEndian |-> FALSE]

NoCall ==
    [op |-> "none",            \* the method called
     on |-> "none",            \* "array": static call on the array; "out": static
                               \* call on the previous result; "this": wrapper method
     in |-> [type |-> "none", len |-> 0, bytes |-> <<>>],
                               \* the array the call was made on, before it
     start |-> NonInt, deleteCount |-> NonInt, items |-> <<>>,
     type |-> "none", intMode |-> "false", trim |-> "false", le |-> FALSE,
     mods |-> {}, args |-> <<>>,
     err |-> "none",
     array |-> NoArray,        \* the typed array returned
     spliced |-> NoArray,      \* the second typed array returned (splice)
     value |-> ValueOf(0),     \* the number returned by pop, at, detach, shift
     defined |-> FALSE,        \* at, detach, shift: the value returned is not undefined
     index |-> 0,              \* the index of at, setAt, insert, detach
     clone |-> FALSE,          \* the clone of flipEndianness
     input |-> NoInput,        \* what typeFromInput was called with
     length |-> 0,             \* the length returned by push
     calls |-> 0,              \* wrapper methods called so far
     declared |-> FALSE,       \* wrapper method: this.littleEndian when called
     arg |-> Null,             \* wrapper method: the optional boolean as passed
                               \* (littleEndian, changeProperty), null if omitted
     prev |-> NoPrev]          \* the call before, without its own prev

\* the previous call as kept in prev: its arrays as snapshots only
AsPrev(h, call) ==
    [call EXCEPT !.array = NoArray, !.spliced = NoArray, !.prev = NoPrev,
                 !.args = <<>>] @@ [out |-> Snapshot(h, call.array)]

RECURSIVE Distinct(_, _)
Distinct(ids, seen) ==
    IF ids = <<>> THEN <<>>
    ELSE IF Head(ids) = 0 \/ Head(ids) \in seen THEN Distinct(Tail(ids), seen)
    ELSE <<Head(ids)>> \o Distinct(Tail(ids), seen \cup {Head(ids)})

\* the place of buffer b among the buffers kept (ids)
NewIdOf(ids, b) == IF b = 0 THEN 0 ELSE CHOOSE i \in 1..Len(ids) : ids[i] = b

Move(ids, obj) == [obj EXCEPT !.buf = NewIdOf(ids, obj.buf)]

Renumber(h, arr, dv, le, oth, call, cp, ids) ==
    [heap |-> [i \in 1..Len(ids) |-> h[ids[i]]],
     array |-> Move(ids, arr),
     view |-> NewIdOf(ids, dv),
     littleEndian |-> le,
     others |-> [i \in 1..Len(oth) |-> Move(ids, oth[i])],
     copy |-> [cp EXCEPT !.array = Move(ids, @), !.view = NewIdOf(ids, @)],
     last |-> [call EXCEPT !.array = Move(ids, @), !.spliced = Move(ids, @)]]

\* The state after a call: the buffers no variable refers to any more are
\* dropped (garbage) and the others numbered in the order array, view,
\* others, last, copy (cp: the other wrapper).
SettleWith(h, arr, dv, le, oth, call, cp) ==
    Renumber(h, arr, dv, le, oth, call, cp,
             Distinct(<<arr.buf, dv>> \o [i \in 1..Len(oth) |-> oth[i].buf]
                      \o <<call.array.buf, call.spliced.buf, cp.array.buf, cp.view>>, {}))

\* the state after a call that leaves the other wrapper alone
Settle(h, arr, dv, le, oth, call) == SettleWith(h, arr, dv, le, oth, call, copy)

Commit(next) ==
    /\ heap' = next.heap
    /\ array' = next.array
    /\ view' = next.view
    /\ littleEndian' = next.littleEndian
    /\ others' = next.others
    /\ copy' = next.copy
    /\ last' = next.last
    /\ UNCHANGED host

-----------------------------------------------------------------------------
(* Construction *)

\* the numbers an array is constructed from
Values == {ValueOf(1), ValueOf(400)}

ValueLists == UNION {[1..n -> Values] : n \in 0..MaxLen}

\* this.array = r.array, this.view = new DataView(this.array.buffer), no call
\* made yet
Wrapped(r, le) ==
    /\ heap = r.h
    /\ array = r.array
    /\ view = r.array.buf
    /\ littleEndian = le
    /\ others = <<>>
    /\ copy = NoWrapper
    /\ last = NoCall

\* new Mutar(values, type, le)
Constructed(type, values, le) == Wrapped(TypedArrayFrom(<<>>, type, values), le)

\* the wrapper constructed with the default byte order (the host's), on an
\* array of Numbers: the items of splice and push are Numbers
Init ==
    /\ host \in BOOLEAN
    /\ \E type \in NumberTypes, values \in ValueLists : Constructed(type, values, host)

-----------------------------------------------------------------------------
(* Calls of the toolkit on the wrapper's array: nothing of the wrapper       *)
(* changes.  The toolkit is stateless, so what a call returns does not       *)
(* depend on the calls before it: the caller makes a call on the array once  *)
(* no result is held (Idle), and may make one more on the result (OnResult). *)

Idle == last.op = "none"
OnResult == last.on = "array" /\ last.err = "none" /\ last.array # NoArray

\* arguments of a call
IndexArgs == {NonInt} \cup {Num(n) : n \in (0 - MaxIndex)..MaxIndex}
ItemArgs == {Num(-2), Num(300), Bool(TRUE), Bool(FALSE)}
\* ...items: numbers, and possibly the byte order after them
NumberLists(max) == UNION {[1..n -> {a \in ItemArgs : IsInteger(a)}] : n \in 0..max}
ItemLists ==
    NumberLists(MaxArgs)
    \cup {Append(items, o) : items \in NumberLists(MaxArgs - 1),
                             o \in {a \in ItemArgs : IsBoolean(a)}}

\* the state once splice has returned r
SpliceCalled(r, start, deleteCount, items) ==
    Settle(r.h, array, view, littleEndian, others,
           [NoCall EXCEPT !.op = "splice", !.on = "array",
                          !.in = Snapshot(heap, array),
                          !.start = start, !.deleteCount = deleteCount,
                          !.items = items, !.err = r.err,
                          !.array = r.array, !.spliced = r.spliced])

SpliceCall(start, deleteCount, items) ==
    SpliceCalled(splice(heap, array, start, deleteCount, items), start, deleteCount, items)

Splice(start, deleteCount, items) ==
    \E next \in {SpliceCall(start, deleteCount, items)} : Commit(next)

NextSplice ==
    /\ Idle
    /\ \E start \in IndexArgs, deleteCount \in IndexArgs, items \in ItemLists :
            Splice(start, deleteCount, items)

SpecSplice == Init /\ [][NextSplice]_vars

\* the state once push has returned r
PushCalled(r, items) ==
    Settle(r.h, array, view, littleEndian, others,
           [NoCall EXCEPT !.op = "push", !.on = "array",
                          !.in = Snapshot(heap, array), !.items = items,
                          !.le = SpliceOrder(items),
                          !.err = r.err, !.array = r.array, !.length = r.length])

PushCall(items) == PushCalled(push(heap, array, items), items)

Push(items) == \E next \in {PushCall(items)} : Commit(next)

\* the state once pop has returned r
PopCalled(r, obj, on, le) ==
    Settle(r.h, array, view, littleEndian, others,
           [NoCall EXCEPT !.op = "pop", !.on = on,
                          !.in = Snapshot(heap, obj), !.le = le,
                          !.err = r.err, !.array = r.array, !.value = r.popped,
                          !.prev = AsPrev(heap, last)])

\* Mutar.pop(obj, le) on the array, or on the array the previous call returned
PopCall(obj, on, le) == PopCalled(pop(heap, obj, le, 0), obj, on, le)

Pop(le) ==
    \/ /\ Idle
       /\ \E next \in {PopCall(array, "array", le)} : Commit(next)
    \/ /\ OnResult
       /\ \E next \in {PopCall(last.array, "out", le)} : Commit(next)

-----------------------------------------------------------------------------
(* The wrapper's methods.  A method that raises leaves the wrapper as it is. *)

\* mutant: the declared order is used whatever is passed
setEndiannessDeclared(le) == littleEndian

\* #setEndianness(littleEndian)
setEndianness(le) == IF le.t = "null" THEN littleEndian ELSE le.b

\* mutant: the assignment is made although the method raised
updateArrayUnguarded(h, r, call) ==
    Settle(r.h, r.array, r.array.buf, littleEndian, others, call)

\* mutant: this.view stays on the buffer it was on
updateArrayStale(h, r, call) ==
    IF r.err # "none"
    THEN Settle(h, array, view, littleEndian, others, call)
    ELSE Settle(r.h, r.array, view, littleEndian, others, call)

\* set updateArray(typedArray): this.array and this.view are replaced
updateArray(h, r, call) ==
    IF r.err # "none"
    THEN Settle(h, array, view, littleEndian, others, call)
    ELSE Settle(r.h, r.array, r.array.buf, littleEndian, others, call)

\* a wrapper method may follow the construction or another wrapper method
Held == last.on \in {"none", "this"} /\ last.calls < MaxCalls

\* what a wrapper method is called with: a number, and possibly the order
PushLists ==
    {<<x>> : x \in {a \in ItemArgs : IsInteger(a)}}
    \cup {<<x, o>> : x \in {a \in ItemArgs : IsInteger(a)},
                     o \in {a \in ItemArgs : IsBoolean(a)}}

\* the wrapper once Mutar.push has returned r
MutarPushed(r, args, le) ==
    updateArray(heap, r,
        [NoCall EXCEPT !.op = "push", !.on = "this",
                       !.in = Snapshot(heap, array), !.items = args,
                       !.le = le,
                       !.err = r.err, !.length = r.length,
                       !.calls = last.calls + 1,
                       !.prev = AsPrev(heap, last)])

\* push(...args): this.littleEndian is appended unless the last argument is
\* a boolean
MutarPushCall(args) ==
    IF LastIsBoolean(args)
    THEN MutarPushed(push(heap, array, args), args, args[Len(args)].b)
    ELSE MutarPushed(push(heap, array, Append(args, Bool(littleEndian))), args, littleEndian)

MutarPush(args) ==
    /\ Held
    /\ \E next \in {MutarPushCall(args)} : Commit(next)

\* the wrapper once Mutar.pop has returned r
MutarPopped(r, le) ==
    updateArray(heap, r,
        [NoCall EXCEPT !.op = "pop", !.on = "this",
                       !.in = Snapshot(heap, array), !.le = le,
                       !.err = r.err, !.value = r.popped,
                       !.calls = last.calls + 1,
                       !.prev = AsPrev(heap, last)])

\* pop(littleEndian=null)
MutarPopCall(le) ==
    MutarPopped(pop(heap, array, setEndianness(le), view), setEndianness(le))

MutarPop(le) ==
    /\ Held
    /\ \E next \in {MutarPopCall(le)} : Commit(next)

\* the wrapper constructed with either byte order declared
InitDeclared ==
    /\ host \in BOOLEAN
    /\ \E type \in NumberTypes, values \in ValueLists, le \in BOOLEAN :
           Constructed(type, values, le)

OrderArgs == {Null, Bool(TRUE), Bool(FALSE)}

NextPushPop ==
    \/ Idle /\ \E items \in ItemLists : Push(items)
    \/ \E le \in BOOLEAN : Pop(le)
    \/ \E args \in PushLists : MutarPush(args)
    \/ \E le \in OrderArgs : MutarPop(le)

SpecPushPop == InitDeclared /\ [][NextPushPop]_vars

-----------------------------------------------------------------------------
(* Conversions: Mutar.convert on the array, and on the array a raw          *)
(* conversion returned, back to the type it came from.                      *)

\* the numbers an array to convert is constructed from
Samples == {ValueOf(-1), ValueOf(0), ValueOf(1), ValueOf(400)}

\* and a BigInt no double holds: 2^53 + 1
BigSamples == {<<1, 0, 0, 0, 0, 0, 32, 0, 0>>}

SamplesOf(type) == IF type \in BigIntTypes THEN Samples \cup BigSamples ELSE Samples

SampleLists(type) == UNION {[1..n -> SamplesOf(type)] : n \in 0..MaxLen}

InitConvert ==
    /\ host \in BOOLEAN
    /\ \E type \in ArrayTypes : \E values \in SampleLists(type) :
           Constructed(type, values, host)

\* the values of the parameters intMode and trim
IntModes == {"false", "true", "force"}
TrimArgs == {"false", "true", "purge"}

\* the pairs a call is made with: the intMode branch does not read trim
ConvertArgs ==
    {a \in [intMode : IntModes, trim : TrimArgs] : a.intMode = "false" \/ a.trim = "false"}

\* the state once convert has returned r
ConvertCalled(r, obj, on, type, intMode, trimArg, le) ==
    Settle(r.h, array, view, littleEndian, others,
           [NoCall EXCEPT !.op = "convert", !.on = on,
                          !.in = Snapshot(heap, obj), !.type = type,
                          !.intMode = intMode, !.trim = trimArg, !.le = le,
                          !.err = r.err, !.array = r.array,
                          !.prev = AsPrev(heap, last)])

ConvertCall(obj, on, type, intMode, trimArg, le) ==
    ConvertCalled(convert(heap, obj, type, intMode, trimArg, le, 0),
                  obj, on, type, intMode, trimArg, le)

\* Mutar.convert(array, type, intMode, trim, le)
Convert(type, intMode, trimArg, le) ==
    /\ Idle
    /\ \E next \in {ConvertCall(array, "array", type, intMode, trimArg, le)} : Commit(next)

\* Mutar.convert(out, T1, false, trim, le) on the array a raw conversion from
\* T1 returned, in the order of that conversion
ConvertBack(trimArg) ==
    /\ OnResult
    /\ last.op = "convert" /\ last.intMode = "false" /\ last.trim = "false"
    /\ \E next \in {ConvertCall(last.array, "out", last.in.type, "false", trimArg, last.le)} :
           Commit(next)

NextConvert ==
    \/ \E type \in ArrayTypes, a \in ConvertArgs, le \in BOOLEAN :
           Convert(type, a.intMode, a.trim, le)
    \/ \E trimArg \in TrimArgs : ConvertBack(trimArg)

SpecConvert == InitConvert /\ [][NextConvert]_vars

-----------------------------------------------------------------------------
(* Concatenation: Mutar.concat(array, ...others, ...mods) *)

\* the numbers an operand is constructed from
OperandLists == UNION {[1..n -> Values] : n \in 0..MaxOperandLen}

\* type and numbers of an operand
OperandSpecs == [type : NumberTypes, values : OperandLists]

RECURSIVE Operands(_, _, _)
RECURSIVE OperandsAfter(_, _, _)
\* the operands constructed one after the other: new type(values)
Operands(h, specs, arrays) ==
    IF specs = <<>> THEN [h |-> h, arrays |-> arrays]
    ELSE OperandsAfter(TypedArrayFrom(h, Head(specs).type, Head(specs).values),
                       Tail(specs), arrays)

OperandsAfter(r, specs, arrays) == Operands(r.h, specs, Append(arrays, r.array))

\* the wrapper on r.array and the operands o.arrays, no call made yet
WrappedWith(r, o, le) ==
    /\ heap = o.h
    /\ array = r.array
    /\ view = r.array.buf
    /\ littleEndian = le
    /\ others = o.arrays
    /\ copy = NoWrapper
    /\ last = NoCall

ConstructedWith(r, specs, le) == WrappedWith(r, Operands(r.h, specs, <<>>), le)

InitConcat ==
    /\ host \in BOOLEAN
    /\ \E type \in NumberTypes, values \in ValueLists,
          specs \in UNION {[1..n -> OperandSpecs] : n \in 0..MaxOthers} :
           ConstructedWith(TypedArrayFrom(<<>>, type, values), specs, host)

\* the modifiers passed among the arguments
ModSets ==
    {{}, {"trim"}, {"force"}, {"intMode"}, {"force", "intMode"}, {"intForce"},
     {"force", "trim"}, {"force", "purge"}}

\* the state once concat has returned r
ConcatCalled(r, mods) ==
    Settle(r.h, array, view, littleEndian, others,
           [NoCall EXCEPT !.op = "concat", !.on = "array",
                          !.in = Snapshot(heap, array),
                          !.args = [i \in 1..Len(others) |-> Snapshot(heap, others[i])],
                          !.mods = mods, !.err = r.err, !.array = r.array])

ConcatCall(mods) == ConcatCalled(concat(heap, array, others, mods), mods)

\* Mutar.concat(array, ...others, ...mods)
Concat(mods) ==
    /\ Idle
    /\ \E next \in {ConcatCall(mods)} : Commit(next)

NextConcat == \E mods \in ModSets : Concat(mods)

SpecConcat == InitConcat /\ [][NextConcat]_vars

-----------------------------------------------------------------------------
(* Single elements, flips, trims and types: calls of the toolkit on the     *)
(* wrapper's array.  at, setAt, insert and detach are called with integer   *)
(* indices; setAt, insert and unshift with Numbers, on an array of Numbers. *)

\* the indices of a call: within the array, and beyond it on either side
Indices == (0 - MaxLen - 1)..(MaxLen + 1)

\* the numbers written
NumberArgs == {a \in ItemArgs : IsInteger(a)}

\* start and deleteCount of the splices made among these calls
SpliceArgs == {Num(1)}

\* the state once a call of the toolkit has returned, call being what is kept
\* of it
Called(h, call) == Settle(h, array, view, littleEndian, others, call)

\* the state once at has returned r
AtCalled(r, index, le) ==
    Called(r.h, [NoCall EXCEPT !.op = "at", !.on = "array",
                               !.in = Snapshot(heap, array),
                               !.index = index, !.le = le, !.err = r.err,
                               !.defined = r.defined, !.value = r.value])

\* Mutar.at(array, index, le)
At(index, le) ==
    /\ Idle
    /\ \E next \in {AtCalled(at(heap, array, index, le, 0), index, le)} : Commit(next)

\* the state once setAt has returned r
SetAtCalled(r, index, integer, le) ==
    Called(r.h, [NoCall EXCEPT !.op = "setAt", !.on = "array",
                               !.in = Snapshot(heap, array),
                               !.index = index, !.items = <<integer>>,
                               !.le = le, !.err = r.err])

\* Mutar.setAt(array, index, integer, le)
SetAt(index, integer, le) ==
    /\ Idle /\ array.type \in NumberTypes
    /\ \E next \in {SetAtCalled(setAt(heap, array, index, integer, le, 0),
                                index, integer, le)} : Commit(next)

\* the state once flipEndianness has returned r
FlipCalled(r, obj, on, clone) ==
    Called(r.h, [NoCall EXCEPT !.op = "flipEndianness", !.on = on,
                               !.in = Snapshot(heap, obj), !.clone = clone,
                               !.err = r.err, !.array = r.array,
                               !.prev = AsPrev(heap, last)])

\* Mutar.flipEndianness(array, clone), and Mutar.flipEndianness(out) on the
\* array it returned
FlipEndianness(clone) ==
    \/ /\ Idle
       /\ \E next \in {FlipCalled(flipEndianness(heap, array, clone), array, "array", clone)} :
              Commit(next)
    \/ /\ OnResult /\ last.op = "flipEndianness" /\ ~clone
       /\ \E next \in {FlipCalled(flipEndianness(heap, last.array, FALSE),
                                  last.array, "out", FALSE)} : Commit(next)

\* the state once insert has returned r
InsertCalled(r, index, integer, le) ==
    Called(r.h, [NoCall EXCEPT !.op = "insert", !.on = "array",
                               !.in = Snapshot(heap, array),
                               !.index = index, !.items = <<integer>>,
                               !.le = le, !.err = r.err,
                               !.array = r.array, !.length = r.length])

\* Mutar.insert(array, index, integer, le)
Insert(index, integer, le) ==
    /\ Idle /\ array.type \in NumberTypes
    /\ \E next \in {InsertCalled(insert(heap, array, index, integer, le),
                                 index, integer, le)} : Commit(next)

\* the state once detach or shift has returned r
RemoveCalled(r, op, index, le) ==
    Called(r.h, [NoCall EXCEPT !.op = op, !.on = "array",
                               !.in = Snapshot(heap, array),
                               !.index = index, !.le = le, !.err = r.err,
                               !.array = r.array,
                               !.defined = r.defined, !.value = r.value])

\* Mutar.detach(array, index, le)
Detach(index, le) ==
    /\ Idle
    /\ \E next \in {RemoveCalled(detach(heap, array, index, le), "detach", index, le)} :
           Commit(next)

\* Mutar.shift(array, le)
Shift(le) ==
    /\ Idle
    /\ \E next \in {RemoveCalled(shift(heap, array, le, 0), "shift", 0, le)} : Commit(next)

\* the state once unshift has returned r
UnshiftCalled(r, items) ==
    Called(r.h, [NoCall EXCEPT !.op = "unshift", !.on = "array",
                               !.in = Snapshot(heap, array), !.items = items,
                               !.le = SpliceOrder(items),
                               !.err = r.err, !.array = r.array, !.length = r.length])

\* Mutar.unshift(array, ...items)
Unshift(items) ==
    /\ Idle /\ array.type \in NumberTypes
    /\ \E next \in {UnshiftCalled(unshift(heap, array, items), items)} : Commit(next)

\* the state once trim has returned r
TrimCalled(r, obj, on, purge, le) ==
    Called(r.h, [NoCall EXCEPT !.op = "trim", !.on = on,
                               !.in = Snapshot(heap, obj),
                               !.trim = IF purge THEN "purge" ELSE "true",
                               !.le = le, !.err = r.err, !.array = r.array,
                               !.prev = AsPrev(heap, last)])

\* Mutar.trim(array, purge, le), and the same trim of the array it returned
Trim(purge, le) ==
    \/ /\ Idle
       /\ \E next \in {TrimCalled(trim(heap, array, purge, le), array, "array", purge, le)} :
              Commit(next)
    \/ /\ OnResult /\ last.op = "trim"
       /\ last.le = le /\ last.trim = (IF purge THEN "purge" ELSE "true")
       /\ \E next \in {TrimCalled(trim(heap, last.array, purge, le),
                                  last.array, "out", purge, le)} : Commit(next)

\* what typeFromInput is called with: the names and the short cuts, strings
\* that are neither, and the constructors and another function
TypeInputs ==
    {StringInput(s) : s \in TypeNames \cup ShortCutNames
                            \cup {"Foo", "int8array", "toString", "constructor"}}
    \cup {FunctionInput(n) : n \in TypeNames \cup {"Array"}}

\* the state once typeFromInput has returned r
TypeCalled(r, input) ==
    Called(heap, [NoCall EXCEPT !.op = "typeFromInput", !.on = "array",
                                !.input = input, !.err = r.err, !.type = r.type])

\* Mutar.typeFromInput(input)
TypeFromInput(input) ==
    /\ Idle
    /\ \E next \in {TypeCalled(typeFromInput(input), input)} : Commit(next)

\* the arrays the calls are made on: of every type, with zeros among the
\* elements
NextAccess ==
    \/ \E index \in Indices, le \in BOOLEAN : At(index, le)
    \/ \E index \in Indices, integer \in NumberArgs, le \in BOOLEAN : SetAt(index, integer, le)
    \/ \E clone \in BOOLEAN : FlipEndianness(clone)
    \/ \E index \in Indices, integer \in NumberArgs, le \in BOOLEAN :
           Insert(index, integer, le)
    \/ \E index \in Indices, le \in BOOLEAN : Detach(index, le)
    \/ \E le \in BOOLEAN : Shift(le)
    \/ \E items \in ItemLists : Unshift(items)
    \/ \E purge \in BOOLEAN, le \in BOOLEAN : Trim(purge, le)
    \/ \E input \in TypeInputs : TypeFromInput(input)
    \/ /\ Idle \/ last.op = "unshift"
       /\ \E le \in BOOLEAN : Pop(le)
    \/ /\ Idle /\ array.type \in NumberTypes
       /\ \E items \in ItemLists : Push(items)
    \/ /\ Idle /\ array.type \in NumberTypes
       /\ \E start \in SpliceArgs, deleteCount \in SpliceArgs, items \in ItemLists :
              Splice(start, deleteCount, items)

SpecAccess == InitConvert /\ [][NextAccess]_vars

-----------------------------------------------------------------------------
(* Views with a byte offset: new type(values).subarray(begin), and the      *)
(* wrapper constructed from such a view.                                    *)

\* the numbers of the array the view is taken from
OffsetLists == UNION {[1..n -> Values] : n \in 1..(MaxLen + 1)}

\* r.array.subarray(begin): a window on r's buffer that starts begin elements
\* into it
SubarrayFrom(r, begin) == [h |-> r.h, array |-> subarray(r.array, begin, r.array.len)]

InitOffset ==
    /\ host \in BOOLEAN
    /\ \E type \in ArrayTypes, values \in OffsetLists :
           \E begin \in 1..Len(values) :
               Wrapped(SubarrayFrom(TypedArrayFrom(<<>>, type, values), begin), host)

NextOffset ==
    \/ \E index \in Indices, le \in BOOLEAN : At(index, le)
    \/ \E index \in Indices, integer \in NumberArgs, le \in BOOLEAN : SetAt(index, integer, le)
    \/ \E clone \in BOOLEAN : FlipEndianness(clone)
    \/ \E le \in BOOLEAN : Shift(le)
    \/ \E le \in BOOLEAN : Pop(le)
    \/ \E le \in OrderArgs : MutarPop(le)

SpecOffset == InitOffset /\ [][NextOffset]_vars

-----------------------------------------------------------------------------
(* The wrapper's other methods.  Those that work in place (setAt, fill,     *)
(* sort, reverse) keep this.array and this.view; flipEndianness and the     *)
(* others assign this.updateArray.                                           *)

\* a < b, for two numbers
Less(a, b) ==
    IF IsNegative(a) # IsNegative(b) THEN IsNegative(a)
    ELSE \E k \in 1..9 : a[k] < b[k] /\ \A j \in (k + 1)..9 : a[j] = b[j]

\* the numbers vs in ascending order (the default order of TypedArray sort)
RECURSIVE InsertSorted(_, _)
InsertSorted(v, s) ==
    IF s = <<>> \/ ~Less(Head(s), v) THEN <<v>> \o s
    ELSE <<Head(s)>> \o InsertSorted(v, Tail(s))

RECURSIVE Sorted(_)
Sorted(vs) == IF vs = <<>> THEN <<>> ELSE InsertSorted(Head(vs), Sorted(Tail(vs)))

\* the heap once the bytes bs are written over the window of obj
WriteWindow(h, obj, bs) ==
    [h EXCEPT ![obj.buf] = SubSeq(@, 1, obj.off) \o bs
                           \o SubSeq(@, obj.off + Len(bs) + 1, Len(@))]

\* the heap once the elements of obj are stored anew, natively
StoreAll(h, obj, values) ==
    WriteWindow(h, obj, Flatten([i \in 1..Len(values) |-> NativeBytes(obj.type, values[i])]))

\* array[0] of flipEndiannessInt, read after the flip
FlippedInt(f) == Elem(f.h, f.array, 0)

\* static flipEndiannessInt(int, type)
flipEndiannessInt(h, int, type) == FlippedInt(FlipNew(TypedArrayFrom(h, type, <<int>>)))

\* this.array.fill(value, start, end)
NativeFill(h, obj, value, start, end) ==
    StoreAll(h, obj, [i \in 1..obj.len |->
                         IF i > RelIndex(start, obj.len) /\ i <= RelIndex(end, obj.len)
                         THEN value ELSE Elem(h, obj, i - 1)])

\* fill(value, start, end, littleEndian): the heap afterwards
fill(h, obj, value, start, end, le) ==
    NativeFill(h, obj, IF le # host THEN flipEndiannessInt(h, value, obj.type) ELSE value,
               start, end)

\* this.array.sort()
NativeSort(h, obj) == StoreAll(h, obj, Sorted(Spread(h, obj)))

\* sort in the other order: the clone c is flipped, sorted, flipped back and
\* set into this.array
SortClone(h, obj, c) ==
    WriteWindow(FlipIn(NativeSort(FlipIn(c.h, c.array).h, c.array), c.array).h, obj,
                Bytes(FlipIn(NativeSort(FlipIn(c.h, c.array).h, c.array), c.array).h, c.array))

\* sort(compareFunction, littleEndian) without a compare function: the heap
\* afterwards
sort(h, obj, le) ==
    IF le # host THEN SortClone(h, obj, slice(h, obj, 0, obj.len)) ELSE NativeSort(h, obj)

\* reverse(): the heap afterwards
reverse(h, obj) == StoreAll(h, obj, Reverse(Spread(h, obj)))

\* mutant: the property is never changed
FlipDeclaredKept(le, changeProperty) == le

\* flipEndianness(changeProperty): this.littleEndian afterwards
FlipDeclared(le, changeProperty) == IF changeProperty THEN ~le ELSE le

\* mutant: the clone holds the array itself
CloneShared(h, obj) == [h |-> h, array |-> obj]

\* clone(): this.array.slice(), which the new wrapper holds
CloneSlice(h, obj) == slice(h, obj, 0, obj.len)

\* new Mutar(typedArray, null, littleEndian)
Wrapper(obj, le) == [array |-> obj, view |-> obj.buf, littleEndian |-> le]

\* the wrapper, this
This == [array |-> array, view |-> view, littleEndian |-> littleEndian]

\* what the wrapper's methods are called with
WrapIndices == {-1, 1}
WrapNumbers == {Num(300)}
WrapItems == {<<x>> : x \in WrapNumbers} \cup {<<x, Bool(o)>> : x \in WrapNumbers, o \in BOOLEAN}
WrapInputs == {StringInput("Uint8Array"), StringInput("Int32"), StringInput("Foo")}
WrapTypes == {"Uint8Array", "Int16Array"}
FillStarts == {0, 1}

\* the array passed to conset: new type(values)
ConsetSpecs == [type : WrapTypes, values : {<<ValueOf(1)>>}]

\* what is kept of a wrapper method called with the optional boolean arg
ThisCall(op, arg) ==
    [NoCall EXCEPT !.op = op, !.on = "this", !.in = Snapshot(heap, array),
                   !.arg = arg, !.declared = littleEndian,
                   !.calls = last.calls + 1, !.prev = AsPrev(heap, last)]

MutarAtCalled(r, index, le) ==
    Called(r.h, [ThisCall("at", le) EXCEPT !.index = index, !.le = setEndianness(le),
                                           !.err = r.err, !.defined = r.defined,
                                           !.value = r.value])

\* at(index, littleEndian=null)
MutarAt(index, le) ==
    /\ Held
    /\ \E next \in {MutarAtCalled(at(heap, array, index, setEndianness(le), view),
                                  index, le)} : Commit(next)

MutarSetAtCalled(r, index, integer, le) ==
    Called(r.h, [ThisCall("setAt", le) EXCEPT !.index = index, !.items = <<integer>>,
                                              !.le = setEndianness(le), !.err = r.err])

\* setAt(index, integer, littleEndian=null)
MutarSetAt(index, integer, le) ==
    /\ Held
    /\ \E next \in {MutarSetAtCalled(setAt(heap, array, index, integer,
                                           setEndianness(le), view),
                                     index, integer, le)} : Commit(next)

MutarInserted(r, index, integer, le) ==
    updateArray(heap, r,
        [ThisCall("insert", le) EXCEPT !.index = index, !.items = <<integer>>,
                                       !.le = setEndianness(le), !.err = r.err,
                                       !.length = r.length])

\* insert(index, integer, littleEndian=null)
MutarInsert(index, integer, le) ==
    /\ Held
    /\ \E next \in {MutarInserted(insert(heap, array, index, integer, setEndianness(le)),
                                  index, integer, le)} : Commit(next)

MutarRemoved(r, op, index, le) ==
    updateArray(heap, r,
        [ThisCall(op, le) EXCEPT !.index = index, !.le = setEndianness(le),
                                 !.err = r.err, !.defined = r.defined,
                                 !.value = r.value])

\* detach(index, littleEndian=null)
MutarDetach(index, le) ==
    /\ Held
    /\ \E next \in {MutarRemoved(detach(heap, array, index, setEndianness(le)),
                                 "detach", index, le)} : Commit(next)

\* shift(littleEndian=null)
MutarShift(le) ==
    /\ Held
    /\ \E next \in {MutarRemoved(shift(heap, array, setEndianness(le), view),
                                 "shift", 0, le)} : Commit(next)

\* ...args of unshift and ...items of splice: this.littleEndian is appended
\* unless the last one is a boolean
WithDeclared(args) == IF LastIsBoolean(args) THEN args ELSE Append(args, Bool(littleEndian))

MutarUnshifted(r, args) ==
    updateArray(heap, r,
        [ThisCall("unshift", Null) EXCEPT !.items = args,
                                          !.le = WithDeclared(args)[Len(WithDeclared(args))].b,
                                          !.err = r.err, !.length = r.length])

\* unshift(...args)
MutarUnshift(args) ==
    /\ Held
    /\ \E next \in {MutarUnshifted(unshift(heap, array, WithDeclared(args)), args)} :
           Commit(next)

MutarSpliced(r, start, deleteCount, items) ==
    updateArray(heap, r,
        [ThisCall("splice", Null) EXCEPT !.start = start, !.deleteCount = deleteCount,
                                         !.items = items,
                                         !.le = WithDeclared(items)[Len(WithDeclared(items))].b,
                                         !.err = r.err, !.spliced = r.spliced])

\* splice(start, deleteCount, ...items)
MutarSplice(start, deleteCount, items) ==
    /\ Held
    /\ \E next \in {MutarSpliced(splice(heap, array, start, deleteCount, WithDeclared(items)),
                                 start, deleteCount, items)} : Commit(next)

MutarTrimmed(r, purge, le) ==
    updateArray(heap, r,
        [ThisCall("trim", le) EXCEPT !.trim = IF purge THEN "purge" ELSE "true",
                                     !.le = setEndianness(le), !.err = r.err])

\* trim(purge=false, littleEndian=null)
MutarTrim(purge, le) ==
    /\ Held
    /\ \E next \in {MutarTrimmed(trim(heap, array, purge, setEndianness(le)), purge, le)} :
           Commit(next)

\* convert once typeFromInput has returned t
MutarConvertTo(t, intMode, trimArg) ==
    IF t.err # "none" THEN Raise(heap, t.err)
    ELSE convert(heap, array, t.type, intMode, trimArg, littleEndian, view)

MutarConverted(r, input, t, intMode, trimArg) ==
    updateArray(heap, r,
        [ThisCall("convert", Null) EXCEPT !.input = input, !.type = t.type,
                                          !.intMode = intMode, !.trim = trimArg,
                                          !.le = littleEndian, !.err = r.err])

MutarConvertCall(input, t, intMode, trimArg) ==
    MutarConverted(MutarConvertTo(t, intMode, trimArg), input, t, intMode, trimArg)

\* convert(type, intMode=false, trim=false)
MutarConvert(input, intMode, trimArg) ==
    /\ Held
    /\ \E next \in {MutarConvertCall(input, typeFromInput(input), intMode, trimArg)} :
           Commit(next)

MutarConsetDone(r, o) ==
    updateArray(heap, r,
        [ThisCall("conset", Null) EXCEPT !.args = <<Snapshot(o.h, o.array)>>,
                                         !.err = r.err])

\* conset(arr) with arr the array o.array just constructed:
\* this.updateArray = this.concat(arr).array
MutarConsetCall(o) == MutarConsetDone(concat(o.h, array, <<o.array>>, {}), o)

MutarConset(spec) ==
    /\ Held
    /\ \E next \in {MutarConsetCall(TypedArrayFrom(heap, spec.type, spec.values))} :
           Commit(next)

MutarFlipped(r, changeProperty) ==
    Settle(r.h, r.array, r.array.buf, FlipDeclared(littleEndian, changeProperty), others,
           [ThisCall("flipEndianness", Bool(changeProperty)) EXCEPT !.err = r.err])

\* flipEndianness(changeProperty=true)
MutarFlip(changeProperty) ==
    /\ Held
    /\ \E next \in {MutarFlipped(flipEndianness(heap, array, FALSE), changeProperty)} :
           Commit(next)

\* fill(value, start, undefined, littleEndian=null)
MutarFill(value, start, le) ==
    /\ Held
    /\ \E next \in {Called(fill(heap, array, ToNumber(value), start, array.len,
                                setEndianness(le)),
                           [ThisCall("fill", le) EXCEPT !.items = <<value>>,
                                                        !.index = start,
                                                        !.le = setEndianness(le)])} :
           Commit(next)

\* sort(undefined, littleEndian=null)
MutarSort(le) ==
    /\ Held
    /\ \E next \in {Called(sort(heap, array, setEndianness(le)),
                           [ThisCall("sort", le) EXCEPT !.le = setEndianness(le)])} :
           Commit(next)

\* reverse()
MutarReverse ==
    /\ Held
    /\ \E next \in {Called(reverse(heap, array), ThisCall("reverse", Null))} : Commit(next)

\* the state once clone() has returned the wrapper on r.array; the calls that
\* follow are made on the clone (onClone) or on this wrapper
MutarCloned(r, onClone) ==
    IF onClone
    THEN SettleWith(r.h, r.array, r.array.buf, littleEndian, others,
                    [ThisCall("clone", Null) EXCEPT !.clone = TRUE], This)
    ELSE SettleWith(r.h, array, view, littleEndian, others,
                    ThisCall("clone", Null), Wrapper(r.array, littleEndian))

\* clone(): new Mutar(this.array.slice(), null, this.littleEndian)
MutarClone(onClone) ==
    /\ Held /\ copy = NoWrapper
    /\ \E next \in {MutarCloned(CloneSlice(heap, array), onClone)} : Commit(next)

InitWrap ==
    /\ host \in BOOLEAN
    /\ \E type \in WrapTypes, values \in ValueLists, le \in BOOLEAN :
           Constructed(type, values, le)

NextWrap ==
    \/ \E args \in WrapItems : MutarPush(args)
    \/ \E le \in OrderArgs : MutarPop(le)
    \/ \E index \in WrapIndices, le \in OrderArgs : MutarAt(index, le)
    \/ \E index \in WrapIndices, integer \in WrapNumbers, le \in OrderArgs :
           MutarSetAt(index, integer, le)
    \/ \E index \in WrapIndices, integer \in WrapNumbers, le \in OrderArgs :
           MutarInsert(index, integer, le)
    \/ \E index \in WrapIndices, le \in OrderArgs : MutarDetach(index, le)
    \/ \E le \in OrderArgs : MutarShift(le)
    \/ \E args \in WrapItems : MutarUnshift(args)
    \/ \E start \in SpliceArgs, deleteCount \in SpliceArgs, items \in WrapItems :
           MutarSplice(start, deleteCount, items)
    \/ \E purge \in BOOLEAN, le \in OrderArgs : MutarTrim(purge, le)
    \/ \E input \in WrapInputs, a \in ConvertArgs : MutarConvert(input, a.intMode, a.trim)
    \/ \E spec \in ConsetSpecs : MutarConset(spec)
    \/ \E changeProperty \in BOOLEAN : MutarFlip(changeProperty)
    \/ \E value \in WrapNumbers, start \in FillStarts, le \in OrderArgs :
           MutarFill(value, start, le)
    \/ \E le \in OrderArgs : MutarSort(le)
    \/ MutarReverse
    \/ \E onClone \in BOOLEAN : MutarClone(onClone)

SpecWrap == InitWrap /\ [][NextWrap]_vars

-----------------------------------------------------------------------------
(* Splice: what the specification says of a call, stated without the code *)

\* the items of a call without the trailing boolean, and the order it names
GivenItems(items) ==
    IF Len(items) > 0 /\ items[Len(items)].t = "boolean"
    THEN SubSeq(items, 1, Len(items) - 1) ELSE items
GivenOrder(items) ==
    IF Len(items) > 0 /\ items[Len(items)].t = "boolean"
    THEN items[Len(items)].b ELSE host

\* conventional splice: the start and the delete count of a call on len elements
ClampedStart(len, start) ==
    IF start.t # "int" THEN len
    ELSE IF start.n < 0 THEN (IF len + start.n < 0 THEN 0 ELSE len + start.n)
    ELSE IF start.n > len THEN len ELSE start.n
ClampedDelete(len, start, deleteCount) ==
    LET rest == len - ClampedStart(len, start)
    IN  IF deleteCount.t # "int" \/ deleteCount.n >= rest THEN rest
        ELSE IF deleteCount.n < 0 THEN 0 ELSE deleteCount.n

\* a number in w bytes in the order le
Encoded(n, w, le) ==
    IF le THEN [k \in 1..w |-> (n \div Pow256(k - 1)) % 256]
    ELSE [k \in 1..w |-> (n \div Pow256(w - k)) % 256]
EncodedAll(items, w, le) ==
    Flatten([i \in 1..Len(items) |-> Encoded(items[i].n, w, le)])

\* C1: a splice call returns a new array of length(v) - del' + count(items)
\* elements and a removed array of del' elements, del' being the clamped
\* delete count and a trailing boolean not being an item; for every start
\* and deleteCount, integer or not, negative or beyond the length.
C1_SpliceLengths ==
    last.op = "splice" =>
        LET del == ClampedDelete(last.in.len, last.start, last.deleteCount)
        IN  /\ last.err = "none"
            /\ last.array.len = last.in.len - del + Len(GivenItems(last.items))
            /\ last.spliced.len = del

C1_Witness ==
    /\ last.op = "splice"
    /\ last.start.t = "int" /\ last.start.n < 0
    /\ last.deleteCount.t = "nonint"
    /\ Len(last.items) = 2 /\ last.items[2].t = "boolean"
    /\ last.spliced.len = 2
    /\ last.array.len = 1

\* C2: with integer start and deleteCount, the new array is v[0..s) followed
\* by the items encoded in the given byte order followed by v[s+d..length),
\* the removed array is v[s..s+d), and v itself is as it was.
C2_SpliceContent ==
    (last.op = "splice" /\ last.start.t = "int" /\ last.deleteCount.t = "int") =>
        LET w == BYTES_PER_ELEMENT(last.in.type)
            len == last.in.len
            s == ClampedStart(len, last.start)
            d == ClampedDelete(len, last.start, last.deleteCount)
            v == last.in.bytes
        IN  /\ last.err = "none"
            /\ s = (IF last.start.n < 0 THEN Max(len + last.start.n, 0)
                    ELSE Min(last.start.n, len))
            /\ d >= 0 /\ d <= len - s
            /\ last.array.type = last.in.type /\ last.spliced.type = last.in.type
            /\ Bytes(heap, last.array) =
                   SubSeq(v, 1, s * w)
                   \o EncodedAll(GivenItems(last.items), w, GivenOrder(last.items))
                   \o SubSeq(v, (s + d) * w + 1, len * w)
            /\ Bytes(heap, last.spliced) = SubSeq(v, s * w + 1, (s + d) * w)
            /\ Snapshot(heap, array) = last.in

C2_Witness ==
    /\ last.op = "splice"
    /\ last.start = Num(1) /\ last.deleteCount = Num(1)
    /\ last.in.len = 2 /\ last.in.type = "Int16Array"
    /\ last.items = <<Num(300), Bool(~host)>>
    /\ last.array.len = 2 /\ last.spliced.len = 1

\* the numbers an element of the type can hold
Representable(n, type) ==
    CASE type = "Int8Array" -> n >= -128 /\ n <= 127
      [] type \in {"Uint8Array", "Uint8ClampedArray"} -> n >= 0 /\ n <= 255
      [] type = "Int16Array" -> n >= -32768 /\ n <= 32767
      [] type = "Uint16Array" -> n >= 0 /\ n <= 65535
      [] type = "Int32Array" -> TRUE
      [] type = "Uint32Array" -> n >= 0

\* a pop that follows the push of one number x, made with the same order:
\* by the toolkit on the array the push returned, or by the wrapper
PopAfterPush ==
    /\ last.op = "pop" /\ last.prev.op = "push" /\ last.prev.err = "none"
    /\ \/ last.on = "out" /\ last.prev.on = "array"
       \/ last.on = "this" /\ last.prev.on = "this"
    /\ Len(GivenItems(last.prev.items)) = 1
    /\ GivenItems(last.prev.items)[1].t = "int"
    /\ Representable(GivenItems(last.prev.items)[1].n, last.prev.in.type)
    /\ last.le = last.prev.le

\* C3: pushing a representable x with order o and then popping with order o
\* gives back an array with the length and elements of v, and x as the
\* popped value; for the toolkit, and for the wrapper whatever order it
\* declares.
C3_PushPopInverse ==
    PopAfterPush =>
        /\ last.err = "none"
        /\ last.value = ValueOf(GivenItems(last.prev.items)[1].n)
        /\ last.prev.in =
               (IF last.on = "this" THEN Snapshot(heap, array)
                ELSE Snapshot(heap, last.array))

C3_Witness ==
    /\ PopAfterPush
    /\ last.on = "this" /\ littleEndian # host
    /\ last.prev.items = <<Num(300)>>
    /\ array.type = "Int16Array" /\ array.len = 2
    /\ last.value = ValueOf(300)

-----------------------------------------------------------------------------
(* Conversions: what the specification says of a call *)

Signed(type) == type \in {"Int8Array", "Int16Array", "Int32Array", "BigInt64Array"}

\* element i (from 0) of the bytes of an array of the type, decoded in the
\* order le: its bytes from the least significant on, extended to nine by
\* the sign
ValueAt(bytes, type, i, le) ==
    LET w == BYTES_PER_ELEMENT(type)
        chunk == SubSeq(bytes, i * w + 1, (i + 1) * w)
        low == IF le THEN chunk ELSE [k \in 1..w |-> chunk[w + 1 - k]]
    IN  [k \in 1..9 |-> IF k <= w THEN low[k]
                        ELSE IF Signed(type) /\ low[w] >= 128 THEN 255 ELSE 0]

\* the number v is one an element of the type can hold
Fits(v, type) ==
    LET w == BYTES_PER_ELEMENT(type)
    IN  \A k \in (w + 1)..9 :
            v[k] = (IF Signed(type) /\ v[w] >= 128 THEN 255 ELSE 0)

\* the w low-order bytes of the numbers vs, each in the order le
Truncated(vs, w, le) ==
    Flatten([i \in 1..Len(vs) |->
                [k \in 1..w |-> IF le THEN vs[i][k] ELSE vs[i][w + 1 - k]]])

\* the source's and the result's values of the last conversion, in its order
SourceValue(i) == ValueAt(last.in.bytes, last.in.type, i, last.le)
ResultValue(i) == ValueAt(Bytes(heap, last.array), last.type, i, last.le)

\* a value-preserving conversion of the array
IntModeCall ==
    last.op = "convert" /\ last.on = "array" /\ last.intMode # "false"

\* C4: an intMode conversion to a strictly narrower type raises IntegrityError
\* as soon as one source value is not representable in the narrower type,
\* unless intMode is "force"; with "force" it never raises and each result
\* element holds the low-order bytes of the source value.
C4_NarrowingIntegrity ==
    (IntModeCall /\ BYTES_PER_ELEMENT(last.type) < BYTES_PER_ELEMENT(last.in.type)) =>
        IF last.intMode = "force"
        THEN /\ last.err = "none"
             /\ last.array.len = last.in.len
             /\ Bytes(heap, last.array) =
                    Truncated([i \in 1..last.in.len |-> SourceValue(i - 1)],
                              BYTES_PER_ELEMENT(last.type), last.le)
        ELSE (\E i \in 0..(last.in.len - 1) : ~Fits(SourceValue(i), last.type))
                 => (last.err = "IntegrityError" /\ last.array = NoArray)

C4_Witness ==
    /\ IntModeCall /\ last.intMode = "true"
    /\ last.in.type = "Int16Array" /\ last.type = "Uint8Array" /\ last.in.len = 2
    /\ SourceValue(0) = ValueOf(1) /\ SourceValue(1) = ValueOf(400)
    /\ last.err = "IntegrityError"

\* a source value no double holds exactly
Beyond53(v) == Number(v) # v

\* C4 for the sources whose values are all held exactly by a double (every
\* Number-typed source, and the BigInt sources within 2^53)
C4_NarrowingIntegrityExact ==
    (\A i \in 0..(last.in.len - 1) : ~Beyond53(SourceValue(i))) => C4_NarrowingIntegrity

\* a forced narrowing of a BigInt beyond 2^53: the result is not its low byte
C4_ForcedBeyond53 ==
    /\ IntModeCall /\ last.intMode = "force" /\ last.le
    /\ last.in.type = "BigInt64Array" /\ last.type = "Uint8Array" /\ last.in.len = 1
    /\ SourceValue(0) = <<1, 0, 0, 0, 0, 0, 32, 0, 0>>
    /\ last.err = "none"
    /\ Bytes(heap, last.array) = <<0>>

\* n and m differ by a multiple of 2^(8w): their w low-order bytes agree
Congruent(n, m, w) == \A k \in 1..w : n[k] = m[k]

RawCall ==
    /\ last.op = "convert" /\ last.on = "array"
    /\ last.intMode = "false" /\ last.trim = "false"

\* C6: a raw conversion of L bytes to a width w not dividing L returns
\* L + (w - L mod w) bytes, the original bytes unchanged and the added bytes
\* zero, before them in big-endian order and after them in little-endian
\* order; when w divides L it returns the source's bytes as L / w elements.
C6_RawPadding ==
    RawCall =>
        LET L == Len(last.in.bytes)
            w == BYTES_PER_ELEMENT(last.type)
            pad == [k \in 1..(w - (L % w)) |-> 0]
        IN  /\ last.err = "none"
            /\ last.array.type = last.type
            /\ IF L % w # 0
               THEN /\ last.array.len * w = L + (w - (L % w))
                    /\ Bytes(heap, last.array) =
                           (IF last.le THEN last.in.bytes \o pad ELSE pad \o last.in.bytes)
               ELSE /\ last.array.len = L \div w
                    /\ Bytes(heap, last.array) = last.in.bytes

C6_Witness ==
    /\ RawCall /\ ~last.le
    /\ last.in.type = "Int16Array" /\ last.in.len = 1 /\ last.type = "Int32Array"
    /\ last.in.bytes # <<0, 0>>
    /\ last.array.len = 1
    /\ Bytes(heap, last.array) = <<0, 0>> \o last.in.bytes

\* a raw conversion to another type followed by the raw conversion of its
\* result back to the first type, with trim, in the same order
RoundTrip ==
    /\ last.op = "convert" /\ last.on = "out" /\ last.trim = "true"
    /\ last.prev.op = "convert" /\ last.prev.on = "array" /\ last.prev.err = "none"
    /\ last.prev.intMode = "false" /\ last.prev.trim = "false"
    /\ last.prev.type # last.prev.in.type
    /\ last.type = last.prev.in.type /\ last.le = last.prev.le

\* the bytes of v less its zero-valued elements at the end (little endian) or
\* at the start (big endian)
Stripped(v, le) ==
    LET w == BYTES_PER_ELEMENT(v.type)
        nonZero == {i \in 1..v.len : \E k \in 1..w : v.bytes[(i - 1) * w + k] # 0}
    IN  IF nonZero = {} THEN <<>>
        ELSE IF le
        THEN SubSeq(v.bytes, 1, w * (CHOOSE i \in nonZero : \A j \in nonZero : j <= i))
        ELSE SubSeq(v.bytes, w * ((CHOOSE i \in nonZero : \A j \in nonZero : i <= j) - 1) + 1,
                    w * v.len)

\* C7 as stated: the round trip yields exactly the bytes of v.
C7_RoundTripExact ==
    RoundTrip => (last.err = "none" /\ Bytes(heap, last.array) = last.prev.in.bytes)

\* C7 amended: the round trip yields the bytes of v less its zero-valued
\* elements at the end (little endian) or the start (big endian): the bytes
\* of v exactly when v is empty or its element at that end is not zero.
C7_RoundTripStripped ==
    RoundTrip =>
        /\ last.err = "none"
        /\ last.array.type = last.prev.in.type
        /\ Bytes(heap, last.array) = Stripped(last.prev.in, last.le)
        /\ (\/ last.prev.in.len = 0
            \/ ValueAt(last.prev.in.bytes, last.prev.in.type,
                       IF last.le THEN last.prev.in.len - 1 ELSE 0, last.le) # ValueOf(0))
               => Bytes(heap, last.array) = last.prev.in.bytes

C7_Witness ==
    /\ RoundTrip /\ last.le
    /\ last.prev.in.type = "Int8Array" /\ last.prev.type = "Int32Array"
    /\ last.prev.in.bytes = <<1, 0>>
    /\ Bytes(heap, last.array) = <<1>>

-----------------------------------------------------------------------------
(* Concatenation: what the specification says of a call *)

\* the values of an array of the snapshot v, as the host reads them
ValuesOf(v) == [i \in 1..v.len |-> ValueAt(v.bytes, v.type, i - 1, host)]

\* the operands of the last call that are not of the base's type
Mismatched == {i \in 1..Len(last.args) : last.args[i].type # last.in.type}

\* the base and the operands are as they were before the call
InputsUnchanged ==
    /\ Snapshot(heap, array) = last.in
    /\ Len(others) = Len(last.args)
    /\ \A i \in 1..Len(last.args) : Snapshot(heap, others[i]) = last.args[i]

\* C8: concat raises a TypeError and returns no view whenever an operand's
\* type differs from the base's and none of "force", "intMode", "intForce"
\* was passed; the base and the operands are unchanged.
C8_ConcatTypeError ==
    (/\ last.op = "concat"
     /\ Mismatched # {}
     /\ last.mods \cap {"force", "intMode", "intForce"} = {}) =>
        /\ last.err = "TypeError"
        /\ last.array = NoArray
        /\ InputsUnchanged

C8_Witness ==
    /\ last.op = "concat" /\ last.mods = {"trim"}
    /\ Len(last.args) = 2 /\ Mismatched = {2}
    /\ last.in.type = "Uint16Array" /\ last.args[2].type = "Int8Array"
    /\ last.err = "TypeError"

\* the sequences of ss one after the other
RECURSIVE Joined(_)
Joined(ss) == IF ss = <<>> THEN <<>> ELSE Head(ss) \o Joined(Tail(ss))

\* a concat call under "intMode" whose operands are all of another type than
\* the base's and hold only values the base's type can hold
IntModeConcat ==
    /\ last.op = "concat"
    /\ "intMode" \in last.mods /\ last.mods \subseteq {"force", "intMode"}
    /\ Len(last.args) > 0
    /\ Mismatched = 1..Len(last.args)
    /\ \A i \in 1..Len(last.args) : \A k \in 1..last.args[i].len :
           Fits(ValuesOf(last.args[i])[k], last.in.type)

\* C9: concat of a base with operands of another type under "intMode" raises
\* no error when every operand value fits the base's type, and returns a view
\* of the base's type holding the base's and the operands' values in argument
\* order.
C9_ConcatIntMode ==
    IntModeConcat =>
        /\ last.err = "none"
        /\ last.array.type = last.in.type
        /\ ValuesOf(Snapshot(heap, last.array)) =
               ValuesOf(last.in) \o Joined([i \in 1..Len(last.args) |-> ValuesOf(last.args[i])])

\* C9 on a little-endian host
C9_ConcatIntModeLittleHost == host => C9_ConcatIntMode

\* C10: concat with n >= 1 operands of the base's type returns a view of that
\* type in a buffer of its own holding the base's bytes followed by the
\* operands' in argument order; with no operand it returns the base itself.
C10_ConcatSameType ==
    (last.op = "concat" /\ Mismatched = {}) =>
        /\ last.err = "none"
        /\ InputsUnchanged
        /\ IF Len(last.args) = 0
           THEN last.array = array
           ELSE /\ last.array.type = last.in.type
                /\ last.array.buf # array.buf
                /\ \A i \in 1..Len(others) : last.array.buf # others[i].buf
                /\ last.array.len = last.in.len
                       + Len(Joined([i \in 1..Len(last.args) |-> ValuesOf(last.args[i])]))
                /\ Bytes(heap, last.array) =
                       last.in.bytes \o Joined([i \in 1..Len(last.args) |-> last.args[i].bytes])

C10_Witness ==
    /\ last.op = "concat" /\ last.mods = {}
    /\ last.in.type = "Int16Array" /\ last.in.len = 2
    /\ Len(last.args) = 2 /\ Mismatched = {}
    /\ last.args[1].len = 1 /\ last.args[2].len = 1
    /\ last.args[1].bytes # last.args[2].bytes
    /\ last.array.len = 4

\* a concat call without operands: the base itself is returned
C10_WitnessNoOperand ==
    /\ last.op = "concat" /\ Len(last.args) = 0
    /\ last.array = array /\ array.len = 2

-----------------------------------------------------------------------------
(* Flips and single elements: what the specification says of a call *)

\* the bytes bs with the w bytes of each element in the opposite order
ElementsReversed(bs, w) ==
    [k \in 1..Len(bs) |-> bs[((k - 1) \div w) * w + w - ((k - 1) % w)]]

\* the bytes of the elements from the i-th to the j-th (from 1) of v
ElementBytes(v, i, j) ==
    SubSeq(v.bytes, (i - 1) * BYTES_PER_ELEMENT(v.type) + 1, j * BYTES_PER_ELEMENT(v.type))

\* C11: flipEndianness reverses the bytes of each element of the view and
\* changes nothing else (type, length, and with clone the view passed in);
\* applied twice it yields the original bytes.
C11_FlipSymmetry ==
    last.op = "flipEndianness" =>
        /\ last.err = "none"
        /\ last.array.type = last.in.type /\ last.array.len = last.in.len
        /\ Bytes(heap, last.array) =
               ElementsReversed(last.in.bytes, BYTES_PER_ELEMENT(last.in.type))
        /\ (last.on = "array" /\ last.clone) =>
               (Snapshot(heap, array) = last.in /\ last.array.buf # array.buf)
        /\ (last.on = "array" /\ ~last.clone) => last.array = array
        /\ last.on = "out" => Bytes(heap, last.array) = last.prev.in.bytes

C11_Witness ==
    /\ last.op = "flipEndianness" /\ last.on = "out"
    /\ last.prev.in.type = "Int32Array" /\ last.prev.in.len = 2
    /\ last.in.bytes # last.prev.in.bytes
    /\ Bytes(heap, last.array) = last.prev.in.bytes
    /\ last.array = array

\* C12: at returns the element at the index, decoded in the given order, for
\* 0 <= index < length; the element at length + index for
\* -length <= index < 0; and undefined, raising nothing, for every other
\* integer, hence for every index of an empty view.
C12_At ==
    last.op = "at" =>
        /\ last.err = "none"
        /\ IF last.index >= 0 /\ last.index < last.in.len
           THEN /\ last.defined
                /\ last.value = ValueAt(last.in.bytes, last.in.type, last.index, last.le)
           ELSE IF last.index < 0 /\ last.index >= 0 - last.in.len
           THEN /\ last.defined
                /\ last.value = ValueAt(last.in.bytes, last.in.type,
                                        last.in.len + last.index, last.le)
           ELSE ~last.defined

C12_Witness ==
    /\ last.op = "at" /\ last.index = -2 /\ last.le # host
    /\ last.in.type = "Int16Array" /\ last.in.len = 2
    /\ ValueAt(last.in.bytes, last.in.type, 0, host) = ValueOf(400)
    /\ last.defined /\ last.value = ValueOf(-28671)

\* at on an empty view, and beyond the elements of a view
C12_WitnessUndefined ==
    /\ last.op = "at" /\ ~last.defined
    /\ \/ last.in.len = 0 /\ last.index = 0
       \/ last.in.len = 2 /\ last.index = -3

\* the index setAt is to write at
ClampedIndex(len, i) == IF i < 0 THEN Max(len + i, 0) ELSE Min(i, len - 1)

\* v with the element at index c (from 0) holding x in the order le
WithElement(v, c, x, le) ==
    ElementBytes(v, 1, c) \o Encoded(x.n, BYTES_PER_ELEMENT(v.type), le)
    \o ElementBytes(v, c + 2, v.len)

\* C13: setAt with any integer index on any view, an empty one included,
\* raises nothing; the element at the clamped index holds x in the given
\* order afterwards, and the length and the other elements are as before.
C13_SetAtClamped ==
    last.op = "setAt" =>
        /\ last.err = "none"
        /\ Snapshot(heap, array).type = last.in.type
        /\ Snapshot(heap, array).len = last.in.len
        /\ last.in.len > 0 =>
               Bytes(heap, array) =
                   WithElement(last.in, ClampedIndex(last.in.len, last.index),
                               last.items[1], last.le)

\* C13 on the views that hold an element
C13_SetAtNonEmpty == last.in.len > 0 => C13_SetAtClamped

\* setAt on an empty view
C13_SetAtEmpty ==
    /\ last.op = "setAt" /\ last.in.len = 0
    /\ last.err = "RangeError"

\* the position insert is to write at
InsertPosition(len, i) == IF i < 0 THEN Max(len + i + 1, 0) ELSE Min(i, len)

\* C14: insert returns [w, length + 1], w holding x in the given order at
\* position n and the elements of v in their order around it, n being
\* max(length + index + 1, 0) for a negative index and min(index, length)
\* otherwise; v is as it was.
C14_Insert ==
    last.op = "insert" =>
        LET n == InsertPosition(last.in.len, last.index)
        IN  /\ last.err = "none"
            /\ last.length = last.in.len + 1
            /\ last.array.type = last.in.type /\ last.array.len = last.in.len + 1
            /\ Bytes(heap, last.array) =
                   ElementBytes(last.in, 1, n)
                   \o Encoded(last.items[1].n, BYTES_PER_ELEMENT(last.in.type), last.le)
                   \o ElementBytes(last.in, n + 1, last.in.len)
            /\ Snapshot(heap, array) = last.in

C14_Witness ==
    /\ last.op = "insert" /\ last.index = -1 /\ last.le # host
    /\ last.in.type = "Int16Array" /\ last.in.len = 2
    /\ last.items = <<Num(300)>>
    /\ last.length = 3
    /\ ElementBytes(Snapshot(heap, last.array), 3, 3) = Encoded(300, 2, ~host)

\* the position detach is to remove
DetachPosition(len, i) == IF i < 0 THEN Max(len + i, 0) ELSE Min(i, len - 1)

\* the view a call was made on, in a heap of its own
InputHeap == <<last.in.bytes>>
InputArray == TypedArray(last.in.type, 1, 0, last.in.len)

\* C15: detach on a view that is not empty removes the one element at the
\* normalised position, returns the others in their order as a view of
\* length - 1, and returns the removed element decoded in the given order,
\* which is what at returns for that position and order.
C15_Detach ==
    (last.op = "detach" /\ last.in.len > 0) =>
        LET p == DetachPosition(last.in.len, last.index)
        IN  /\ last.err = "none"
            /\ last.array.type = last.in.type /\ last.array.len = last.in.len - 1
            /\ Bytes(heap, last.array) =
                   ElementBytes(last.in, 1, p) \o ElementBytes(last.in, p + 2, last.in.len)
            /\ last.defined
            /\ last.value = ValueAt(last.in.bytes, last.in.type, p, last.le)
            /\ last.value = at(InputHeap, InputArray, p, last.le, 0).value
            /\ Snapshot(heap, array) = last.in

C15_Witness ==
    /\ last.op = "detach" /\ last.index = 3 /\ last.le # host
    /\ last.in.type = "Int16Array" /\ last.in.len = 2
    /\ ValueAt(last.in.bytes, last.in.type, 1, host) = ValueOf(400)
    /\ last.value = ValueOf(-28671)
    /\ last.array.len = 1

-----------------------------------------------------------------------------
(* Trims and types: what the specification says of a call *)

\* the elements (from 1) of v that are not zero
NonZeroElements(v) ==
    {i \in 1..v.len : ElementBytes(v, i, i) # Zeros(BYTES_PER_ELEMENT(v.type))}

\* a structural trim, and a purge
TrimCall == last.op = "trim" /\ last.trim = "true"
PurgeCall == last.op = "trim" /\ last.trim = "purge"

AllZeroCall ==
    /\ last.op = "trim" /\ last.on = "array"
    /\ last.in.len > 0 /\ NonZeroElements(last.in) = {}

\* C17: the structural trim of a view that is not empty and whose bytes are
\* all zero returns one zero element, in both byte orders; the purge of it
\* returns a view of length zero.
C17_TrimAllZero ==
    AllZeroCall =>
        /\ last.err = "none"
        /\ last.array.type = last.in.type
        /\ last.array.len = (IF last.trim = "purge" THEN 0 ELSE 1)
        /\ Bytes(heap, last.array) =
               Zeros(last.array.len * BYTES_PER_ELEMENT(last.in.type))

\* the structural trim of an all-zero view returns no element
C17_TrimAllZeroEmpty ==
    /\ AllZeroCall /\ last.trim = "true"
    /\ last.in.type = "Uint8Array" /\ last.in.len = 2
    /\ last.err = "none" /\ last.array.len = 0

\* the elements of v that are not zero, one after the other
RECURSIVE NonZeroFrom(_, _)
NonZeroFrom(v, i) ==
    IF i > v.len THEN <<>>
    ELSE (IF i \in NonZeroElements(v) THEN ElementBytes(v, i, i) ELSE <<>>)
         \o NonZeroFrom(v, i + 1)

\* C18: purge returns, for every element type, the 64-bit ones included, a
\* view of the same type holding the elements of v that are not zero, in
\* their order, and so no zero element.
C18_Purge ==
    PurgeCall =>
        /\ last.err = "none"
        /\ last.array.type = last.in.type
        /\ Bytes(heap, last.array) = NonZeroFrom(last.in, 1)
        /\ NonZeroElements(Snapshot(heap, last.array)) = 1..last.array.len

\* C18 for the types whose elements are Numbers
C18_PurgeNumbers == last.in.type \in NumberTypes => C18_Purge

\* the purge of a BigInt array keeps its zeros
C18_PurgeBigIntKept ==
    /\ PurgeCall /\ last.on = "array"
    /\ last.in.type = "BigInt64Array" /\ last.in.len = 2
    /\ NonZeroElements(last.in) = {2}
    /\ Snapshot(heap, last.array) = last.in

\* the types of one byte
SingleByte(type) == type \in {"Int8Array", "Uint8Array", "Uint8ClampedArray"}

\* the items of a call with the other byte order named
OtherOrder(items) == Append(GivenItems(items), Bool(~GivenOrder(items)))

\* a call of one of the methods the order flag is passed to, on a view of a
\* single-byte type
SingleByteCall ==
    /\ last.op \in {"at", "pop", "shift", "detach", "setAt", "splice", "push",
                    "unshift", "insert", "flipEndianness"}
    /\ SingleByte(last.in.type)

\* the call made again with the other order returned what the call returned
SameRemoved(r, popped) ==
    /\ r.err = last.err
    /\ popped = last.value
    /\ Snapshot(r.h, r.array) = Snapshot(heap, last.array)

SameAdded(r) ==
    /\ r.err = last.err
    /\ Snapshot(r.h, r.array) = Snapshot(heap, last.array)

\* C19: on a view of a single-byte type the order flag has no effect: at,
\* pop, shift and detach return the same value, and setAt, splice, push,
\* unshift and insert produce the same bytes, for either order; and
\* flipEndianness leaves the bytes as they are.
C19_SingleByteOrder ==
    SingleByteCall =>
        CASE last.op = "at" ->
                 LET r == at(InputHeap, InputArray, last.index, ~last.le, 0)
                 IN  r.err = last.err /\ r.defined = last.defined /\ r.value = last.value
          [] last.op = "pop" ->
                 LET r == pop(InputHeap, InputArray, ~last.le, 0)
                 IN  SameRemoved(r, r.popped)
          [] last.op = "shift" ->
                 LET r == shift(InputHeap, InputArray, ~last.le, 0)
                 IN  SameRemoved(r, r.value) /\ r.defined = last.defined
          [] last.op = "detach" ->
                 LET r == detach(InputHeap, InputArray, last.index, ~last.le)
                 IN  SameRemoved(r, r.value) /\ r.defined = last.defined
          [] last.op = "setAt" ->
                 LET r == setAt(InputHeap, InputArray, last.index, last.items[1],
                                ~last.le, 0)
                 IN  r.err = last.err /\ Bytes(r.h, InputArray) = Bytes(heap, array)
          [] last.op = "splice" ->
                 LET r == splice(InputHeap, InputArray, last.start, last.deleteCount,
                                 OtherOrder(last.items))
                 IN  /\ SameAdded(r)
                     /\ Snapshot(r.h, r.spliced) = Snapshot(heap, last.spliced)
          [] last.op = "push" ->
                 SameAdded(push(InputHeap, InputArray, OtherOrder(last.items)))
          [] last.op = "unshift" ->
                 SameAdded(unshift(InputHeap, InputArray, OtherOrder(last.items)))
          [] last.op = "insert" ->
                 SameAdded(insert(InputHeap, InputArray, last.index, last.items[1],
                                  ~last.le))
          [] last.op = "flipEndianness" ->
                 Bytes(heap, last.array) = last.in.bytes

C19_Witness ==
    /\ SingleByteCall /\ last.op = "detach"
    /\ last.in.type = "Int8Array" /\ last.in.len = 2 /\ last.le # host
    /\ last.index = 0 /\ last.value = ValueOf(-1)
    /\ last.array.len = 1

\* a write on a single-byte view in the order that is not the host's
C19_WitnessWrite ==
    /\ SingleByteCall /\ last.op = "insert"
    /\ last.in.type = "Uint8Array" /\ last.in.len = 1 /\ last.le # host
    /\ last.items = <<Num(-2)>> /\ last.index = 0
    /\ Bytes(heap, last.array) = <<254>> \o last.in.bytes

\* the eleven names and their short names
Canonical ==
    {"Int8Array", "Uint8Array", "Uint8ClampedArray", "Int16Array", "Uint16Array",
     "Int32Array", "Uint32Array", "Float32Array", "Float64Array",
     "BigInt64Array", "BigUint64Array"}

Alias(name) ==
    CASE name = "Uint8ClampedArray" -> "Clamped"
      [] name = "BigInt64Array" -> "BigInt"
      [] name = "BigUint64Array" -> "BigUint"
      [] name = "Int8Array" -> "Int8"
      [] name = "Uint8Array" -> "Uint8"
      [] name = "Int16Array" -> "Int16"
      [] name = "Uint16Array" -> "Uint16"
      [] name = "Int32Array" -> "Int32"
      [] name = "Uint32Array" -> "Uint32"
      [] name = "Float32Array" -> "Float32"
      [] name = "Float64Array" -> "Float64"

\* the canonical names an input stands for: none, or one
Resolved(input) ==
    {name \in Canonical :
        \/ input.name = name
        \/ input.typeof = "string" /\ input.name = Alias(name)}

\* C20: typeFromInput returns the canonical name for a constructor, a
\* canonical name or a short name, and raises a TypeError for every other
\* input; the name returned is always one of the eleven canonical names.
C20_TypeFromInput ==
    last.op = "typeFromInput" =>
        /\ Resolved(last.input) # {} =>
               (last.err = "none" /\ last.type \in Resolved(last.input))
        /\ Resolved(last.input) = {} => last.err = "TypeError"
        /\ last.err = "none" => last.type \in Canonical

\* C20 for the inputs that do not name a property of Object.prototype
C20_TypeFromInputOwn == last.input.name \notin ObjectPrototype => C20_TypeFromInput

\* typeFromInput returns the name of a property every object inherits
C20_InheritedName ==
    /\ last.op = "typeFromInput" /\ last.input = StringInput("toString")
    /\ last.err = "none" /\ last.type = "toString"

-----------------------------------------------------------------------------
(* Buffers of their own, trims of a concatenation, pop and shift as splices, *)
(* and narrowing of representable values                                     *)

\* a write through one of the two views changes bytes the other one reads
Aliased(a, b) ==
    /\ a.buf # 0 /\ a.buf = b.buf
    /\ a.off < b.off + byteLength(b)
    /\ b.off < a.off + byteLength(a)

\* C21: the view a toolkit operation returns shares no byte with the view it
\* was called on, so that a write through one is never visible through the
\* other; here for convert, raw or value-preserving, padded or not.
C21_ConvertOwnBuffer ==
    (last.op = "convert" /\ last.on = "array" /\ last.err = "none") =>
        ~Aliased(last.array, array)

\* a raw conversion whose result is a view on the buffer of its input
C21_SharedBuffer ==
    /\ last.op = "convert" /\ last.on = "array" /\ last.err = "none"
    /\ last.intMode = "false" /\ last.trim = "false"
    /\ last.in.type = "Uint8Array" /\ last.in.len = 2 /\ last.type = "Uint16Array"
    /\ last.array.buf = array.buf /\ last.array.len = 1

\* a concat call with operands that returned, "trim" or "purge" being passed
TrimConcat ==
    /\ last.op = "concat" /\ last.err = "none" /\ Len(last.args) > 0
    /\ last.mods \cap {"trim", "purge"} # {}

\* the trim (or purge) of r.array, in the host's order
TrimOf(r, purge) == Snapshot(trim(r.h, r.array, purge, host).h, trim(r.h, r.array, purge, host).array)

\* C26: with "trim" (or "purge") concat returns the trim (or purge) of the
\* sequence it returns without that modifier, whether or not an operand was
\* converted.
C26_ConcatTrim ==
    TrimConcat =>
        Snapshot(heap, last.array) =
            TrimOf(concat(heap, array, others, last.mods \ {"trim", "purge"}),
                   "purge" \in last.mods)

\* a concat with "trim" whose result is shorter than the sequence and is not
\* its trim: the zero byte of a converted operand is gone from the middle
C26_TrimmedOperand ==
    /\ TrimConcat /\ last.mods = {"force", "trim"} /\ host
    /\ last.in.type = "Uint8Array" /\ last.in.bytes = <<1>>
    /\ Len(last.args) = 2
    /\ last.args[1].type = "Uint16Array" /\ last.args[1].bytes = <<1, 0>>
    /\ last.args[2].type = "Uint8Array" /\ last.args[2].bytes = <<1>>
    /\ Bytes(heap, last.array) = <<1, 1, 1>>

\* what splice returns for the view the last call was made on
SpliceOfInput(start) == splice(InputHeap, InputArray, Num(start), Num(1), <<>>)

\* the last call returned the new view of the splice r and the element r
\* removed, decoded in the order of the call
AsSplice(r, value) ==
    /\ last.err = "none"
    /\ Snapshot(heap, last.array) = Snapshot(r.h, r.array)
    /\ r.spliced.len = 1 => value = ValueAt(Bytes(r.h, r.spliced), last.in.type, 0, last.le)

\* C28: pop returns the new view of splice(v, length - 1, 1) and the removed
\* element decoded in the given order, shift those of splice(v, 0, 1); for
\* every view, the empty one included.
C28_PopShiftAsSplice ==
    /\ last.op = "pop" => AsSplice(SpliceOfInput(last.in.len - 1), last.value)
    /\ last.op = "shift" => AsSplice(SpliceOfInput(0), last.value)

\* C28 on the views that are not empty
C28_PopShiftNonEmpty ==
    last.in.len > 0 => C28_PopShiftAsSplice

\* pop on the empty view raises
C28_PopEmpty ==
    /\ last.op = "pop" /\ last.in.len = 0 /\ last.in.type = "Uint8Array"
    /\ last.err = "RangeError"

\* C29: a value-preserving conversion without "force" to a strictly narrower
\* type, of values that are all representable in that type, raises nothing
\* and returns the same values, in either byte order.
C29_NarrowRepresentable ==
    (/\ IntModeCall /\ last.intMode = "true"
     /\ BYTES_PER_ELEMENT(last.type) < BYTES_PER_ELEMENT(last.in.type)
     /\ \A i \in 0..(last.in.len - 1) : Fits(SourceValue(i), last.type)) =>
        /\ last.err = "none"
        /\ last.array.len = last.in.len
        /\ \A i \in 0..(last.in.len - 1) : ResultValue(i) = SourceValue(i)

\* C29 in little-endian order
C29_NarrowRepresentableLittle ==
    last.le => C29_NarrowRepresentable

\* the big-endian narrowing of a representable value raises
C29_BigEndianRaises ==
    /\ IntModeCall /\ last.intMode = "true" /\ ~last.le
    /\ last.in.type = "Uint16Array" /\ last.type = "Uint8Array" /\ last.in.len = 1
    /\ SourceValue(0) = ValueOf(1)
    /\ last.err = "IntegrityError"

-----------------------------------------------------------------------------
(* Views with a byte offset *)

\* a call on a view that starts at a byte offset of its buffer
OffsetCall(op) == last.op = op /\ last.on = "array" /\ array.off > 0

\* C30: on a view with a non-zero byte offset, at with an index within the
\* view and the host's order returns v[i], and pop and shift return v's last
\* and first element in the given order; so does the pop of the wrapper
\* constructed from the view.
C30_OffsetViews ==
    /\ (OffsetCall("at") /\ last.le = host /\ last.index >= 0 /\ last.index < last.in.len) =>
           /\ last.err = "none" /\ last.defined
           /\ last.value = ValueAt(last.in.bytes, last.in.type, last.index, host)
    /\ (OffsetCall("pop") /\ last.in.len > 0) =>
           /\ last.err = "none"
           /\ last.value = ValueAt(last.in.bytes, last.in.type, last.in.len - 1, last.le)
    /\ (OffsetCall("shift") /\ last.in.len > 0) =>
           /\ last.err = "none"
           /\ last.value = ValueAt(last.in.bytes, last.in.type, 0, last.le)
    /\ (last.op = "pop" /\ last.on = "this" /\ last.calls = 1 /\ last.in.len > 0) =>
           /\ last.err = "none"
           /\ last.value = ValueAt(last.in.bytes, last.in.type, last.in.len - 1, last.le)

\* the bytes of the buffer of v that lie outside v's range
Outside(h, v) ==
    [k \in (1..Len(h[v.buf])) \ ((v.off + 1)..(v.off + byteLength(v))) |-> h[v.buf][k]]

\* C30, writes: setAt and flipEndianness called on the view change no byte
\* outside its range.
C30_WritesInRange ==
    [][(last'.op \in {"setAt", "flipEndianness"} /\ last'.on = "array" /\ array.off > 0)
           => Outside(heap', array') = Outside(heap, array)]_vars

\* at(v, 0) on the view of the second and last element returns the first
\* element of the buffer
C30_AtReadsBufferStart ==
    /\ OffsetCall("at") /\ last.le = host /\ last.index = 0
    /\ array.type = "Uint8Array" /\ array.off = 1 /\ array.len = 1
    /\ heap[array.buf] = <<1, 144>>
    /\ last.value = ValueOf(1)

-----------------------------------------------------------------------------
(* The wrapper: what the specification says of its methods *)

\* a wrapper as its user sees it: elements, element type and declared order
Seen(h, w) == [held |-> Snapshot(h, w.array), littleEndian |-> w.littleEndian]

\* C22: clone() returns a wrapper with the elements, the element type and
\* the declared order of the wrapper it is called on and with a buffer of
\* its own; whatever is called on one of the two afterwards, the elements,
\* the type and the declared order of the other one stay as they are.
C22_CloneIndependent ==
    [][/\ (copy = NoWrapper /\ copy' # NoWrapper) =>
              /\ Seen(heap', copy') = Seen(heap, This)
              /\ Seen(heap', This') = Seen(heap, This)
              /\ copy'.array.buf # array'.buf
              /\ copy'.view # view'
       /\ (copy # NoWrapper /\ copy' # NoWrapper) =>
              Seen(heap', copy') = Seen(heap, copy)]_vars

\* the clone was flipped: its bytes and its declared order differ from the
\* original's, which are those of before
C22_Witness ==
    /\ copy # NoWrapper
    /\ last.op = "flipEndianness" /\ last.on = "this" /\ last.arg = Bool(TRUE)
    /\ last.prev.op = "clone" /\ last.prev.clone
    /\ array.type = "Int16Array" /\ array.len = 2
    /\ Snapshot(heap, copy.array) = last.in
    /\ Bytes(heap, array) # last.in.bytes
    /\ littleEndian # copy.littleEndian

\* the original was written to after clone(): the clone holds the old bytes
C22_WitnessOriginal ==
    /\ copy # NoWrapper
    /\ last.op = "setAt" /\ last.on = "this" /\ last.err = "none"
    /\ last.prev.op = "clone" /\ ~last.prev.clone
    /\ Snapshot(heap, copy.array) = last.in
    /\ Bytes(heap, array) # last.in.bytes

\* the order a wrapper method works in: the littleEndian passed, or the
\* declared order when none is passed
GivenOrDeclared == IF last.arg = Null THEN last.declared ELSE last.arg.b

\* a method of the wrapper was called
ThisCalled(op) == last.op = op /\ last.on = "this"

\* C23: flipEndianness() reverses the bytes of every element held and toggles
\* littleEndian, so that at(i) in the declared order returns the same before
\* and after; flipEndianness(false) reverses the bytes and leaves
\* littleEndian as it is.
C23_WrapperFlip ==
    ThisCalled("flipEndianness") =>
        /\ last.err = "none"
        /\ array.type = last.in.type /\ array.len = last.in.len
        /\ Bytes(heap, array) = ElementsReversed(last.in.bytes, BYTES_PER_ELEMENT(array.type))
        /\ view = array.buf
        /\ IF last.arg = Bool(FALSE) THEN littleEndian = last.declared
           ELSE /\ littleEndian = ~last.declared
                /\ \A i \in 0..(array.len - 1) :
                       at(heap, array, i, littleEndian, view) =
                           Defined(heap, ValueAt(last.in.bytes, last.in.type, i, last.declared))

C23_Witness ==
    /\ ThisCalled("flipEndianness") /\ last.arg = Bool(TRUE)
    /\ array.type = "Int16Array" /\ array.len = 2
    /\ last.in.bytes # Bytes(heap, array)
    /\ littleEndian # last.declared
    /\ ValueAt(Bytes(heap, array), array.type, 1, littleEndian) = ValueOf(400)

C23_WitnessKept ==
    /\ ThisCalled("flipEndianness") /\ last.arg = Bool(FALSE)
    /\ array.type = "Int16Array" /\ array.len = 1
    /\ last.in.bytes # Bytes(heap, array)
    /\ littleEndian = last.declared

\* the elements of v without the one at position p (from 0)
Without(v, p) == ElementBytes(v, 1, p) \o ElementBytes(v, p + 2, v.len)

\* the elements of v with x, in the order le, put in before position p
WithInserted(v, p, x, le) ==
    ElementBytes(v, 1, p) \o Encoded(x.n, BYTES_PER_ELEMENT(v.type), le)
    \o ElementBytes(v, p + 1, v.len)

\* C24: a wrapper method that takes a littleEndian argument works in that
\* order when it is passed and in the declared order when it is omitted:
\* insert stores x in that order, detach, at and shift decode in it, setAt
\* and fill store in it, and sort orders by the values decoded in it.
C24_PerCallOrder ==
    /\ ThisCalled("insert") =>
           /\ last.err = "none"
           /\ Snapshot(heap, array) =
                  [type |-> last.in.type, len |-> last.in.len + 1,
                   bytes |-> WithInserted(last.in, InsertPosition(last.in.len, last.index),
                                          last.items[1], GivenOrDeclared)]
    /\ (ThisCalled("detach") /\ last.in.len > 0) =>
           /\ last.err = "none" /\ last.defined
           /\ last.value = ValueAt(last.in.bytes, last.in.type,
                                   DetachPosition(last.in.len, last.index), GivenOrDeclared)
           /\ Bytes(heap, array) = Without(last.in, DetachPosition(last.in.len, last.index))
    /\ (ThisCalled("at") /\ last.defined) =>
           last.value = ValueAt(last.in.bytes, last.in.type,
                                IF last.index < 0 THEN last.in.len + last.index
                                ELSE last.index, GivenOrDeclared)
    /\ (ThisCalled("shift") /\ last.in.len > 0) =>
           last.value = ValueAt(last.in.bytes, last.in.type, 0, GivenOrDeclared)
    /\ (ThisCalled("setAt") /\ last.in.len > 0) =>
           Bytes(heap, array) =
               WithElement(last.in, ClampedIndex(last.in.len, last.index),
                           last.items[1], GivenOrDeclared)
    /\ ThisCalled("fill") =>
           \A i \in 1..array.len :
               ElementBytes(Snapshot(heap, array), i, i) =
                   (IF i > last.index
                    THEN Encoded(last.items[1].n, BYTES_PER_ELEMENT(array.type),
                                 GivenOrDeclared)
                    ELSE ElementBytes(last.in, i, i))
    /\ ThisCalled("sort") =>
           \A i \in 1..(array.len - 1) :
               ~Less(ValueAt(Bytes(heap, array), array.type, i, GivenOrDeclared),
                     ValueAt(Bytes(heap, array), array.type, i - 1, GivenOrDeclared))

\* insert with an order that is not the declared one
C24_Witness ==
    /\ ThisCalled("insert") /\ last.arg = Bool(~last.declared)
    /\ last.declared = host
    /\ array.type = "Int16Array" /\ array.len = 3 /\ last.index = 1
    /\ ElementBytes(Snapshot(heap, array), 2, 2) = Encoded(300, 2, ~host)

\* detach with an order that is not the declared one
C24_WitnessDetach ==
    /\ ThisCalled("detach") /\ last.arg = Bool(~last.declared)
    /\ last.in.type = "Int16Array" /\ last.in.len = 2 /\ array.len = 1
    /\ last.value = ValueAt(last.in.bytes, last.in.type, 1, ~last.declared)
    /\ last.value # ValueAt(last.in.bytes, last.in.type, 1, last.declared)

\* insert without an order
C24_WitnessOmitted ==
    /\ ThisCalled("insert") /\ last.arg = Null /\ last.declared # host
    /\ array.type = "Int16Array" /\ array.len = 1
    /\ Bytes(heap, array) = Encoded(300, 2, last.declared)

\* the wrapper is as it was when the last method was called
AsBefore ==
    /\ Snapshot(heap, array) = last.in
    /\ littleEndian = last.declared
    /\ view = array.buf

\* the view the last convert was called on, in a heap of its own
ForcedOfInput ==
    convert(InputHeap, InputArray, last.type, "force", "false", last.declared, 0)

\* C25: a method of the wrapper that raises leaves the held array, its type
\* and the declared order as they were, so that a convert with "force"
\* following it works on the original data.
C25_RaiseKeepsWrapper ==
    /\ (last.on = "this" /\ last.op \notin {"push", "pop"} /\ last.err # "none") => AsBefore
    /\ (/\ ThisCalled("convert") /\ last.intMode = "force"
        /\ last.prev.op \in {"convert", "conset"} /\ last.prev.err # "none") =>
           /\ last.in = last.prev.in
           /\ last.declared = last.prev.declared
           /\ last.type \in ArrayTypes =>
                  /\ last.err = "none"
                  /\ Snapshot(heap, array) =
                         Snapshot(ForcedOfInput.h, ForcedOfInput.array)

\* a lossy narrowing raised, and the forced one that follows truncates the
\* original values
C25_Witness ==
    /\ ThisCalled("convert") /\ last.intMode = "force" /\ last.err = "none"
    /\ last.prev.op = "convert" /\ last.prev.err = "IntegrityError"
    /\ last.prev.in.type = "Int16Array" /\ last.prev.in.len = 2
    /\ array.type = "Uint8Array" /\ array.len = 2
    /\ Bytes(heap, array) = <<144, 1>>

\* conset with an array of another type raised
C25_WitnessConset ==
    /\ ThisCalled("conset") /\ last.err = "TypeError"
    /\ last.args[1].type # last.in.type /\ last.in.len = 2
    /\ AsBefore

\* convert to an unknown type raised
C25_WitnessType ==
    /\ ThisCalled("convert") /\ last.err = "TypeError"
    /\ last.input = StringInput("Foo") /\ last.in.len = 2
    /\ AsBefore

\* the view of the wrapper w is on the buffer of the array it holds, the
\* type is one of the registry, and the buffer holds whole elements
Consistent(w) ==
    /\ w.array.type \in ArrayTypes
    /\ w.array.buf \in 1..Len(heap)
    /\ w.view = w.array.buf
    /\ Len(heap[w.array.buf]) % BYTES_PER_ELEMENT(w.array.type) = 0
    /\ byteLength(w.array) <= Len(heap[w.array.buf])

\* C27: after construction and after every method of the wrapper, in any
\* sequence, this.view is on the buffer of this.array, the type is the
\* array's, and the buffer's byte length is a multiple of the element width
\* (length, byteLength, type and BYTES_PER_ELEMENT of the wrapper are read
\* from this.array).
C27_WrapperConsistent ==
    /\ Consistent(This)
    /\ copy # NoWrapper => Consistent(copy)

\* two methods, both replacing the array
C27_Witness ==
    /\ ThisCalled("push") /\ last.err = "none"
    /\ last.prev.op = "convert" /\ last.prev.err = "none"
    /\ last.prev.in.type = "Uint8Array"
    /\ array.type = "Int32Array" /\ array.len = 2
    /\ view = array.buf /\ Len(heap[view]) = 8

====
